---- MODULE Spec2Model ----
(***************************************************************************)
(* A model of the pain-tracking web application's client logic:            *)
(*   - the Entry Aggregator (PainChart.chartData) and the table filter     *)
(*     (PainEntriesTable.filteredEntries);                                 *)
(*   - the feedback form's attachment queue and submission (Feedback);     *)
(*   - the profile-picture guard of the settings and registration forms.   *)
(*                                                                         *)
(* Conventions of the model.                                               *)
(*   A JavaScript Date is its getTime() value, an integer number of ticks; *)
(*   a day has TicksPerDay ticks and day 0 is EpochYmd.  Time zones are    *)
(*   left out: every Date is read in the one local zone.                   *)
(*   A number printed with one decimal (toFixed(1)) is kept in tenths:     *)
(*   50 stands for 5.0.                                                    *)
(***************************************************************************)
EXTENDS Integers, Sequences, FiniteSets, TLC

\* ------------------------------------------------------------------ bounds
\* Most entries the query result holds.
MaxEntries == 3
\* The calendar days, counted from EpochYmd, an entry or a window bound can
\* lie on: 2023-12-31, 2024-01-01, 2024-01-02 (a year boundary, and two days
\* of one year).
Days == {0, 1, 2}

\* The times of day a Date can carry (0 is midnight, 1 is later that day).
TimesOfDay == {0, 1}
TicksPerDay == Cardinality(TimesOfDay)

\* Pain levels the entries take (entrySchema admits 0..10).
Levels == {4, 9}

\* Day 0 of the model's calendar.
EpochYmd == [y |-> 2023, m |-> 12, d |-> 31]

Ticks == {d * TicksPerDay + tod : d \in Days, tod \in TimesOfDay}

VARIABLES
    entries,          \* PainEntriesTable: the query's data, newest first
    dateRange,        \* PainEntriesTable: useState(defaultDateRange)
    chartData,        \* PainChart: useMemo chartData
    filteredEntries,  \* PainEntriesTable: useMemo filteredEntries
    dateParse,        \* how the host parses new Date("Jan 1")
    selectedFiles,    \* Feedback: useState<File[]>
    previewUrls,      \* Feedback: useState<string[]>
    isSubmitting,     \* Feedback: useState(false)
    sub,              \* Feedback.onSubmit: the run in flight (its closure and locals)
    lastEvent,        \* Feedback: the handler that ran last and the files it was given
    toasts,           \* useToast: the notifications the last step raised
    form,             \* the page in use: "dashboard", "feedback", "settings", "register", ...
    profilePicture,   \* Settings / AuthForm: the form field 'profilePicture'
    previewUrl,       \* Settings / AuthForm: useState<string | null>
    loading,          \* Settings.loading / AuthForm.isRegistering
    psub,             \* Settings.onSubmit / AuthForm.onRegister: the run in flight
    store,            \* Firestore: the documents of the painEntries collection
    nextId,           \* Firestore: how many document ids addDoc has drawn, plus one
    query,            \* useQuery(['painEntries']): fetch status, the server's answer in flight, error
    deleting,         \* PainEntriesTable.handleDelete: ids whose deleteDoc is in flight
    entryForm,        \* NewEntryForm: isSubmitting and where onSubmit is suspended
    showNewEntryDialog, \* Dashboard: useState(false)
    currentUser,      \* auth.currentUser, which onAuthStateChanged hands to App
    authProfile,      \* the signed-in account's profile (user.displayName)
    error,            \* AuthForm: useState('')
    isResetting,      \* AuthForm: useState(false)
    resetDialogOpen,  \* AuthForm: useState(false)
    authRun,          \* AuthForm.onSubmit / AuthForm.onReset: the run in flight
    userDoc,          \* Firestore: the document users/{uid} of the account
    load,             \* Settings.loadUserProfile: the run in flight
    creator,          \* Firestore: who created each document of painEntries (history)
    feedbackDocs,     \* Firestore: the documents of the feedback collection
    request           \* Firestore: the last request a client issued, and the rules' verdict

chartVars == <<entries, dateRange, chartData, filteredEntries, dateParse>>

feedbackVars == <<selectedFiles, previewUrls, isSubmitting, sub, lastEvent, toasts>>

profileVars == <<form, profilePicture, previewUrl, loading, psub>>

entryVars == <<store, nextId, query, deleting, entryForm, showNewEntryDialog>>

authVars == <<currentUser, authProfile, error, isResetting, resetDialogOpen, authRun>>

docVars == <<userDoc, load>>

rulesVars == <<creator, feedbackDocs, request>>

vars == <<entries, dateRange, chartData, filteredEntries, dateParse,
          selectedFiles, previewUrls, isSubmitting, sub, lastEvent, toasts,
          form, profilePicture, previewUrl, loading, psub,
          store, nextId, query, deleting, entryForm, showNewEntryDialog,
          currentUser, authProfile, error, isResetting, resetDialogOpen, authRun,
          userDoc, load, creator, feedbackDocs, request>>

\* ---------------------------------------------------------------- calendar
IsLeap(y) == (y % 4 = 0 /\ y % 100 # 0) \/ y % 400 = 0

DaysInMonth(y, m) ==
    IF m = 2 THEN (IF IsLeap(y) THEN 29 ELSE 28)
    ELSE IF m \in {4, 6, 9, 11} THEN 30 ELSE 31

NextDay(ymd) ==
    IF ymd.d < DaysInMonth(ymd.y, ymd.m) THEN [ymd EXCEPT !.d = ymd.d + 1]
    ELSE IF ymd.m < 12 THEN [ymd EXCEPT !.m = ymd.m + 1, !.d = 1]
    ELSE [y |-> ymd.y + 1, m |-> 1, d |-> 1]

RECURSIVE Ymd(_)
\* The calendar date of day number n.
Ymd(n) == IF n = 0 THEN EpochYmd ELSE NextDay(Ymd(n - 1))

\* The local calendar day a Date falls on.
DayOf(t) == t \div TicksPerDay

MonthName(m) ==
    <<"Jan", "Feb", "Mar", "Apr", "May", "Jun",
      "Jul", "Aug", "Sep", "Oct", "Nov", "Dec">>[m]

MonthOfName(s) == CHOOSE m \in 1..12 : MonthName(m) = s

\* Mutant of FormatYMD: the key keeps the time of day (as an ISO timestamp would).
FormatYMD_WithTime(t) ==
    [y |-> Ymd(DayOf(t)).y, m |-> Ymd(DayOf(t)).m, d |-> Ymd(DayOf(t)).d,
     tod |-> t % TicksPerDay]

\* date-fns format(date, 'yyyy-MM-dd'): year, month and day of the local day.
FormatYMD(t) == Ymd(DayOf(t))

\* date-fns format(date, 'MMM d'): month name and day, the year is not printed.
FormatMonthDay(t) == [mon |-> MonthName(Ymd(DayOf(t)).m), d |-> Ymd(DayOf(t)).d]

RECURSIVE DaysBeforeMonth2001(_)
DaysBeforeMonth2001(m) ==
    IF m = 1 THEN 0 ELSE DaysBeforeMonth2001(m - 1) + DaysInMonth(2001, m - 1)

\* new Date("Jan 1").getTime() where the host's legacy parser accepts a date
\* without a year: the year defaults to 2001 (and "Feb 29" rolls to 1 Mar 2001).
\* The value is in days since 2001-01-01; only differences are used.
ParseLabel2001(label) == DaysBeforeMonth2001(MonthOfName(label.mon)) + label.d - 1

\* ------------------------------------------------------------ PainChart.tsx
\* Mutant of InWindow: the bounds are put in order before the comparison.
InWindow_Normalised(entry, range) ==
    \/ entry.date >= range.from /\ entry.date <= range.to
    \/ entry.date >= range.to /\ entry.date <= range.from

\* entry.date >= dateRange.from && entry.date <= dateRange.to
InWindow(entry, range) == entry.date >= range.from /\ entry.date <= range.to

FilterWindow(es, range) == SelectSeq(es, LAMBDA e : InWindow(e, range))

IndexOfKey(acc, key) ==
    IF \E i \in 1..Len(acc) : acc[i].key = key
    THEN CHOOSE i \in 1..Len(acc) : acc[i].key = key
    ELSE 0

\* One step of the reduce: the bucket of the entry's 'yyyy-MM-dd' key is
\* created (keeping the entry's date) or added to.
ReduceStep(acc, entry) ==
    LET dateStr == FormatYMD(entry.date)
        i == IndexOfKey(acc, dateStr)
    IN  IF i = 0
        THEN Append(acc, [key |-> dateStr, date |-> entry.date,
                          totalPain |-> entry.painLevel, count |-> 1])
        ELSE [acc EXCEPT ![i].totalPain = @ + entry.painLevel,
                         ![i].count = @ + 1]

RECURSIVE DailyData(_, _)
\* filteredEntries.reduce(...): the buckets in the order their keys were
\* first inserted, which is the order Object.values lists them in.
DailyData(es, acc) ==
    IF es = <<>> THEN acc ELSE DailyData(Tail(es), ReduceStep(acc, Head(es)))

\* Mutant of ToFixed1: the digits after the first decimal are cut off.
ToFixed1_Truncated(totalPain, count) == (10 * totalPain) \div count

\* Number((totalPain / count).toFixed(1)), in tenths.  toFixed(1) takes the
\* nearest tenth of the double totalPain / count and the larger one on a tie.
\* With count < 20 a tie of the quotient is a multiple of 1/4, which the
\* double holds exactly, so the tie goes up.
ToFixed1(totalPain, count) == (20 * totalPain + count) \div (2 * count)

MapBucket(b) ==
    [date |-> FormatMonthDay(b.date), painLevel |-> ToFixed1(b.totalPain, b.count)]

\* (a, b) => new Date(a.date).getTime() - new Date(b.date).getTime().
\* Parsing a date string that is not ISO 8601 is left to the host: where it
\* reads the label in the year 2001 the difference is that of the two times;
\* where it rejects the label both times are NaN, the difference is NaN and
\* sort takes it for +0.
CompareLabels(a, b, parse) ==
    IF parse = "year2001" THEN ParseLabel2001(a.date) - ParseLabel2001(b.date)
    ELSE 0

RECURSIVE InsertSorted(_, _, _)
\* x is put after every element it does not compare below (a stable sort).
InsertSorted(sorted, x, parse) ==
    IF sorted = <<>> THEN <<x>>
    ELSE IF CompareLabels(x, Head(sorted), parse) < 0 THEN <<x>> \o sorted
    ELSE <<Head(sorted)>> \o InsertSorted(Tail(sorted), x, parse)

RECURSIVE SortByLabel(_, _, _)
\* Array.prototype.sort with CompareLabels: stable.
SortByLabel(xs, acc, parse) ==
    IF xs = <<>> THEN acc
    ELSE SortByLabel(Tail(xs), InsertSorted(acc, Head(xs), parse), parse)

MapBuckets(bs) == [i \in 1..Len(bs) |-> MapBucket(bs[i])]

\* PainChart.chartData
ChartData(es, range, parse) ==
    SortByLabel(MapBuckets(DailyData(FilterWindow(es, range), <<>>)), <<>>, parse)

\* ----------------------------------------------------- PainEntriesTable
RECURSIVE InsertNewestFirst(_, _)
\* The place of a document in the query's order (orderBy('date', 'desc')).
\* Documents of equal date come in the order of their ids, which the store
\* draws at random; the model lists them by pain level.
InsertNewestFirst(es, e) ==
    IF es = <<>> THEN <<e>>
    ELSE IF e.date > Head(es).date
            \/ (e.date = Head(es).date /\ e.painLevel >= Head(es).painLevel)
         THEN <<e>> \o es
    ELSE <<Head(es)>> \o InsertNewestFirst(Tail(es), e)

RECURSIVE SortNewestFirst(_, _)
\* .sort((a, b) => b.date.getTime() - a.date.getTime()): stable.
SortNewestFirst(xs, acc) ==
    IF xs = <<>> THEN acc
    ELSE LET x == Head(xs)
             k == Cardinality({i \in 1..Len(acc) : acc[i].date >= x.date})
         IN  SortNewestFirst(Tail(xs),
                 SubSeq(acc, 1, k) \o <<x>> \o SubSeq(acc, k + 1, Len(acc)))

\* PainEntriesTable.filteredEntries
FilteredEntries(es, range) == SortNewestFirst(FilterWindow(es, range), <<>>)

Entry(level, t) == [painLevel |-> level, date |-> t]

\* A render: both memos are recomputed from entries and dateRange.
Rendered(es, range) ==
    /\ entries' = es
    /\ dateRange' = range
    /\ chartData' = ChartData(es, range, dateParse)
    /\ filteredEntries' = FilteredEntries(es, range)
    /\ UNCHANGED dateParse

\* A render of the dashboard with nothing else going on.
Render(es, range) ==
    /\ Rendered(es, range)
    /\ UNCHANGED <<feedbackVars, profileVars, entryVars, authVars, docVars, rulesVars>>

\* auth.currentUser: a signed-in user, or null
NoUser == "null"

\* useQuery with no fetch in flight and nothing fetched yet: answer is what
\* the server returned for the fetch in flight, once it has (answered); uid
\* is the user queryFn read from auth.currentUser when the fetch started.
IdleQuery ==
    [status |-> "idle", answered |-> FALSE, answer |-> <<>>, error |-> FALSE,
     uid |-> NoUser]

\* The time the page was loaded, at which the module PainChart.tsx is
\* evaluated: midnight of the last of Days.
LoadTime == 4

\* const defaultDateRange = {from: <30 days before now>, to: new Date()}
defaultDateRange == [from |-> LoadTime - 30 * TicksPerDay, to |-> LoadTime]

\* NewEntryForm's defaultValues.date, new Date() at the time the form is
\* opened, which is after the page was loaded.
DefaultEntryDate == LoadTime + 1

\* NewEntryForm with no submission in flight.
IdleEntryForm == [isSubmitting |-> FALSE, pc |-> "idle", painLevel |-> 0, date |-> 0]

\* The dashboard's collection, query and dialog while another page is the one
\* in use.
DashboardUnmounted ==
    /\ store = {}
    /\ nextId = 1
    /\ query = IdleQuery
    /\ deleting = {}
    /\ entryForm = IdleEntryForm
    /\ showNewEntryDialog = FALSE

NoFile == [size |-> 0, type |-> ""]

\* ------------------------------------------------------ forms and schemas
\* A text field is kept as its length; an e-mail address as its characters.
\* z.string().email(): one "@" with text before it, and after it a domain
\* with a dot that has text on both sides.
IsEmail(e) ==
    \E at \in 2..Len(e) :
        /\ e[at] = "@"
        /\ \A k \in 1..Len(e) : e[k] = "@" => k = at
        /\ \E dot \in (at + 2)..(Len(e) - 1) : e[dot] = "."
        /\ e[at + 1] # "." /\ e[Len(e)] # "."

\* authSchema
AuthSchemaOk(data) == IsEmail(data.email) /\ data.password >= 6

\* registerSchema = authSchema.extend({displayName: z.string().min(2), ...})
RegisterSchemaOk(data) == AuthSchemaOk(data) /\ data.displayName >= 2

\* resetSchema
ResetSchemaOk(data) == IsEmail(data.email)

\* An empty date field (the calendar hands undefined when the selected day
\* is clicked again).
NoDate == -1

\* entrySchema
EntrySchemaOk(data) ==
    /\ data.painLevel >= 0 /\ data.painLevel <= 10
    /\ data.date # NoDate

\* Mutant of FeedbackSchemaOk: the text may be one character short.
FeedbackSchemaOk_Short(data) == data.feedback >= 9

\* feedbackSchema
FeedbackSchemaOk(data) == data.feedback >= 10

\* settingsSchema
SettingsSchemaOk(data) == data.displayName >= 2 /\ data.displayName <= 50

SchemaOk(f, data) ==
    CASE f = "login" -> AuthSchemaOk(data)
      [] f = "register" -> RegisterSchemaOk(data)
      [] f = "reset" -> ResetSchemaOk(data)
      [] f = "dashboard" -> EntrySchemaOk(data)
      [] f = "feedback" -> FeedbackSchemaOk(data)
      [] f = "settings" -> SettingsSchemaOk(data)

\* What the user types: addresses with and without an "@", and lengths on
\* both sides of each bound.
Emails == {<<"a", "@", "b", ".", "c">>, <<"a", "b", ".", "c">>}
Passwords == {5, 6}
DisplayNames == {1, 2, 50, 51}
FeedbackTexts == {9, 10}
\* The date of a new entry: a day picked in the calendar, or the default.
EntryDates == {0, DefaultEntryDate}

LoginInputs == {[email |-> e, password |-> p] : e \in Emails, p \in Passwords}
RegisterInputs ==
    {[email |-> e, password |-> p, displayName |-> n] :
        e \in Emails, p \in Passwords, n \in DisplayNames}
ResetInputs == {[email |-> e] : e \in Emails}
EntryInputs ==
    {[painLevel |-> l, date |-> t] : l \in Levels, t \in EntryDates \cup {NoDate}}
FeedbackInputs == {[feedback |-> n] : n \in FeedbackTexts}
SettingsInputs == {[displayName |-> n] : n \in DisplayNames}

FormInputs(f) ==
    CASE f = "login" -> LoginInputs
      [] f = "register" -> RegisterInputs
      [] f = "reset" -> ResetInputs
      [] f = "dashboard" -> EntryInputs
      [] f = "feedback" -> FeedbackInputs
      [] f = "settings" -> SettingsInputs

\* The signed-in user of the pages' specifications.
Users == {"u1"}

\* No document users/{uid}.
NoDoc == [displayName |-> 0, origin |-> "none"]

\* No request issued yet.
NoRequest == [collection |-> "", method |-> "", auth |-> NoUser, id |-> 0, allowed |-> FALSE]

\* The store as the specifications of the pages leave it: the rules are
\* followed in their own specification.
RulesIdle ==
    /\ creator = <<>>
    /\ feedbackDocs = {}
    /\ request = NoRequest

\* Most sign-in calls in flight at once (the login button is never disabled).
MaxSignIns == 2

\* AuthForm.onSubmit and AuthForm.onReset with nothing in flight.
IdleAuthRun == [signIns |-> 0, sendReset |-> FALSE]

IdleLoad == [pc |-> "idle", doc |-> NoDoc]

\* The session and the account as a page finds them: the pages behind the
\* login are rendered for a signed-in user, the auth form for none.
Session(f) ==
    /\ currentUser = IF f \in {"login", "register", "reset"} THEN NoUser ELSE "u1"
    /\ authProfile = [displayName |-> IF currentUser = NoUser THEN 0 ELSE 2]
    /\ error = ""
    /\ isResetting = FALSE
    /\ resetDialogOpen = (f = "reset")
    /\ authRun = IdleAuthRun
    /\ userDoc = NoDoc
    /\ load = IdleLoad
    /\ RulesIdle

\* previewUrl: null
NoUrl == [blob |-> NoFile]

IdleProfileRun == [pc |-> "idle", file |-> NoFile, photoURL |-> NoUrl, displayName |-> 0]

\* A form with a profile picture as mounted: no file chosen, no preview.
ProfileFormMounted(f) ==
    /\ form = f
    /\ Session(f)
    /\ profilePicture = NoFile
    /\ previewUrl = NoUrl
    /\ loading = FALSE
    /\ psub = IdleProfileRun

\* Feedback.onSubmit with no run in flight (the fields are described at
\* OnSubmit).
IdleSub ==
    [pc |-> "idle", files |-> <<>>, previews |-> <<>>, i |-> 0, urls |-> <<>>,
     failed |-> {}, addDoc |-> "", written |-> <<>>]

\* The feedback form as mounted: nothing queued, no submission in flight.
FeedbackMounted ==
    /\ selectedFiles = <<>>
    /\ previewUrls = <<>>
    /\ isSubmitting = FALSE
    /\ sub = IdleSub
    /\ lastEvent = [op |-> "mount", files |-> <<>>]
    /\ toasts = <<>>

InitChart ==
    /\ FeedbackMounted
    /\ ProfileFormMounted("dashboard")
    /\ DashboardUnmounted
    /\ entries = <<>>
    /\ dateRange \in {[from |-> f, to |-> t] : f \in Ticks, t \in Ticks}
    /\ chartData = <<>>
    /\ filteredEntries = <<>>
    /\ dateParse \in {"year2001", "invalid"}

\* The query delivers a list with one more document (a refetch after
\* NewEntryForm.onSubmit wrote it).
RefetchWithNewEntry(level, t) ==
    /\ Len(entries) < MaxEntries
    /\ Render(InsertNewestFirst(entries, Entry(level, t)), dateRange)

\* The query delivers a list without document i (the refetch that
\* handleDelete starts).
RefetchWithoutEntry(i) ==
    /\ i \in 1..Len(entries)
    /\ Render(SubSeq(entries, 1, i - 1) \o SubSeq(entries, i + 1, Len(entries)),
              dateRange)

\* onDateRangeChange / setDateRange
OnDateRangeChange(from, to) ==
    /\ Render(entries, [from |-> from, to |-> to])

NextChart ==
    \/ \E level \in Levels, t \in Ticks : RefetchWithNewEntry(level, t)
    \/ \E i \in 1..MaxEntries : RefetchWithoutEntry(i)
    \/ \E f \in Ticks, t \in Ticks : OnDateRangeChange(f, t)

SpecChart == InitChart /\ [][NextChart]_vars

\* ------------------------------------------------- Feedback (part_002)
\* const MAX_FILE_SIZE = 5 * 1024 * 1024
MAX_FILE_SIZE == 5 * 1024 * 1024

ACCEPTED_IMAGE_TYPES == {"image/jpeg", "image/jpg", "image/png", "image/webp"}

\* The cap of the queue, the 3 of handleFileChange and of the add button.
MaxAttachments == 3

\* Most files one file-selection event offers (the input is `multiple`).
MaxBatch == 2

File(size, type) == [size |-> size, type |-> type]

\* The files the user offers where the queue and the submission are followed:
\* two the guard accepts and one it rejects.
FeedbackFiles ==
    {File(MAX_FILE_SIZE, "image/png"), File(1, "image/jpeg"),
     File(MAX_FILE_SIZE + 1, "image/png")}

\* The files the user offers where the guard's decision is followed: sizes
\* below, at and a byte above the limit, types in and outside the list
\* (image/gif is an image type the list does not hold).
FileSizes == {1, MAX_FILE_SIZE, MAX_FILE_SIZE + 1}
FileTypes == {"image/png", "image/gif", "application/pdf"}
AllFiles == {File(size, type) : size \in FileSizes, type \in FileTypes}

Batches == UNION {[1..n -> FeedbackFiles] : n \in 0..MaxBatch}

Toast(title, file) == [title |-> title, file |-> file]

\* The handler that ran last, for those that are given no files.
Event(op) == [op |-> op, files |-> <<>>]

\* Feedback.validateFile: the title of the toast it raises, or "accepted"
\* where it returns true.
ValidateFile(file) ==
    IF file.size > MAX_FILE_SIZE THEN "File too large"
    ELSE IF file.type \notin ACCEPTED_IMAGE_TYPES THEN "Invalid file type"
    ELSE "accepted"

\* Mutant of QueueIsFull: the files accepted earlier in the same event are
\* not counted.
QueueIsFull_IgnoresBatch(queued, newCount) == queued >= MaxAttachments

\* Mutant of QueueIsFull: the cap is compared with > for >=.
QueueIsFull_OffByOne(queued, newCount) == queued + newCount > MaxAttachments

\* selectedFiles.length + newFiles.length >= 3
QueueIsFull(queued, newCount) == queued + newCount >= MaxAttachments

\* URL.createObjectURL(file)
CreateObjectURL(file) == [blob |-> file]

RECURSIVE ForEachFile(_, _, _)
\* Array.from(files).forEach(...) of handleFileChange: acc.newFiles are the
\* files pushed so far and acc.toasts the toasts raised so far; `queued` is
\* selectedFiles.length of the render the handler belongs to.
ForEachFile(files, queued, acc) ==
    IF files = <<>> THEN acc
    ELSE LET file == Head(files)
             verdict == ValidateFile(file)
             next ==
                 IF verdict # "accepted"
                 THEN [acc EXCEPT !.toasts = Append(@, Toast(verdict, file))]
                 ELSE IF QueueIsFull(queued, Len(acc.newFiles))
                 THEN [acc EXCEPT !.toasts = Append(@, Toast("Too many files", NoFile))]
                 ELSE [acc EXCEPT !.newFiles = Append(@, file)]
         IN  ForEachFile(Tail(files), queued, next)

\* A run that ended in the step before is no longer in flight.
Settled(s) == IF s.pc = "done" THEN IdleSub ELSE s

\* Feedback.handleFileChange
HandleFileChange(files) ==
    LET r == ForEachFile(files, Len(selectedFiles), [newFiles |-> <<>>, toasts |-> <<>>])
    IN  /\ selectedFiles' = selectedFiles \o r.newFiles
        /\ previewUrls' = previewUrls
               \o [k \in 1..Len(r.newFiles) |-> CreateObjectURL(r.newFiles[k])]
        /\ toasts' = r.toasts
        /\ lastEvent' = [op |-> "handleFileChange", files |-> files]
        /\ sub' = Settled(sub)
        /\ UNCHANGED <<isSubmitting, chartVars, profileVars, entryVars, authVars, docVars, rulesVars>>

\* prev.filter((_, i) => i !== index)
RemoveAt(seq, index) ==
    SubSeq(seq, 1, index - 1) \o SubSeq(seq, index + 1, Len(seq))

\* Mutant of RemovePreview: the preview list is left as it is.
RemovePreview_Kept(urls, index) == urls

\* setPreviewUrls(prev => prev.filter((_, i) => i !== index))
RemovePreview(urls, index) == RemoveAt(urls, index)

\* Feedback.removeFile: the button of preview `index`
RemoveFile(index) ==
    /\ index \in 1..Len(previewUrls)
    /\ selectedFiles' = RemoveAt(selectedFiles, index)
    /\ previewUrls' = RemovePreview(previewUrls, index)
    /\ toasts' = <<>>
    /\ lastEvent' = [op |-> "removeFile", files |-> <<>>]
    /\ sub' = Settled(sub)
    /\ UNCHANGED <<isSubmitting, chartVars, profileVars, entryVars, authVars, docVars, rulesVars>>

\* The run of onSubmit: pc is the await it is suspended at ("upload": the
\* uploadBytes and getDownloadURL of files[i]; "addDoc": the write), "idle"
\* with no run, "done" in the state its last step leaves.  files and previews
\* are selectedFiles and previewUrls of the render the handler was made in,
\* urls is attachmentUrls.  failed (the indices whose upload was rejected),
\* addDoc (how the write settled) and written (the document the write
\* stored) record what the backend did.
\*
\* Mutant of SubmitDisabled: the submit button is never disabled.
SubmitDisabled_Never == FALSE

\* The submit button: disabled={isSubmitting}
SubmitDisabled == isSubmitting

\* Feedback.onSubmit up to its first await.  The submit button is disabled
\* while isSubmitting.  Without a signed-in user the handler returns at once.
\* handleSubmit validates in the task of the submit event (the resolver's
\* promise settles in microtasks) and the flag set by the handler is
\* rendered before the next event is dispatched.
OnSubmit(user, data) ==
    /\ ~SubmitDisabled
    /\ FeedbackSchemaOk(data)
    /\ toasts' = <<>>
    /\ lastEvent' = [op |-> "onSubmit", files |-> <<>>, data |-> data]
    /\ IF user = NoUser
       THEN /\ sub' = Settled(sub)
            /\ UNCHANGED isSubmitting
       ELSE /\ isSubmitting' = TRUE
            /\ sub' = [IdleSub EXCEPT
                          !.pc = IF Len(selectedFiles) > 0 THEN "upload" ELSE "addDoc",
                          !.files = selectedFiles,
                          !.previews = previewUrls,
                          !.i = 1]
    /\ UNCHANGED <<selectedFiles, previewUrls, chartVars, profileVars, entryVars, authVars, docVars, rulesVars>>

\* The retrieval URL of the object uploaded for file i of the run.
DownloadURL(i, file) == [object |-> i, file |-> file]

\* Mutant of AfterFile: the loop passes over the file after the current one.
AfterFile_SkipsOne(s) ==
    [s EXCEPT !.i = @ + 2,
              !.pc = IF s.i + 2 > Len(s.files) THEN "addDoc" ELSE "upload"]

\* The loop index after file i, and where the run goes on from there.
AfterFile(s) ==
    [s EXCEPT !.i = @ + 1,
              !.pc = IF s.i + 1 > Len(s.files) THEN "addDoc" ELSE "upload"]

\* Mutant of UploadFailed: the error of an upload is not caught in the loop
\* and ends the run in the outer catch.
UploadFailed_Aborts(s) == [s EXCEPT !.pc = "done", !.failed = @ \cup {s.i}]

\* catch of the loop body: the failure is reported and the loop goes on.
UploadFailed(s) == [AfterFile(s) EXCEPT !.failed = @ \cup {s.i}]

\* onSubmit, one pass of the loop body: uploadBytes and getDownloadURL of
\* file i settle; ok is whether both were fulfilled.
UploadSettles(ok) ==
    /\ sub.pc = "upload"
    /\ IF ok
       THEN /\ sub' = [AfterFile(sub) EXCEPT
                          !.urls = Append(@, DownloadURL(sub.i, sub.files[sub.i]))]
            /\ toasts' = <<>>
            /\ UNCHANGED isSubmitting
       ELSE /\ sub' = UploadFailed(sub)
            /\ toasts' = <<Toast("Upload Failed", sub.files[sub.i])>>
            /\ UNCHANGED isSubmitting
    /\ lastEvent' = [op |-> "uploadSettles", files |-> <<>>]
    /\ UNCHANGED <<selectedFiles, previewUrls, chartVars, profileVars, entryVars, authVars, docVars, rulesVars>>

\* onSubmit from addDoc on: the write settles; on success the queue and the
\* previews are cleared, on failure the error toast is raised; finally
\* isSubmitting is reset.
AddDocSettles(ok) ==
    /\ sub.pc = "addDoc"
    /\ IF ok
       THEN /\ sub' = [sub EXCEPT !.pc = "done", !.addDoc = "fulfilled",
                                  !.written = <<[attachments |-> sub.urls]>>]
            /\ selectedFiles' = <<>>
            /\ previewUrls' = <<>>
            /\ toasts' = <<Toast("Feedback Submitted", NoFile)>>
       ELSE /\ sub' = [sub EXCEPT !.pc = "done", !.addDoc = "rejected"]
            /\ toasts' = <<Toast("Error", NoFile)>>
            /\ UNCHANGED <<selectedFiles, previewUrls>>
    /\ isSubmitting' = FALSE
    /\ lastEvent' = [op |-> "addDocSettles", files |-> <<>>]
    /\ UNCHANGED <<chartVars, profileVars, entryVars, authVars, docVars, rulesVars>>

\* The dashboard's state while the feedback page is the one in use.
ChartUnmounted ==
    /\ entries = <<>>
    /\ dateRange = [from |-> 0, to |-> 0]
    /\ chartData = <<>>
    /\ filteredEntries = <<>>
    /\ dateParse = "year2001"

InitFeedback ==
    /\ ChartUnmounted
    /\ DashboardUnmounted
    /\ FeedbackMounted
    /\ ProfileFormMounted("feedback")

NextFeedback ==
    \/ \E files \in Batches : HandleFileChange(files)
    \/ \E index \in 1..MaxAttachments : RemoveFile(index)
    \/ \E user \in Users \cup {NoUser}, data \in FeedbackInputs : OnSubmit(user, data)
    \/ \E ok \in BOOLEAN : UploadSettles(ok)
    \/ \E ok \in BOOLEAN : AddDocSettles(ok)

SpecFeedback == InitFeedback /\ [][NextFeedback]_vars

\* ------------------------- Settings (part_002) and AuthForm: profile picture
\* Settings.handleProfilePictureChange, its two checks: the title of the
\* toast it raises, or "accepted" where it goes on to the preview.
SettingsPictureVerdict(file) ==
    IF file.size > MAX_FILE_SIZE THEN "File too large"
    ELSE IF file.type \notin ACCEPTED_IMAGE_TYPES THEN "Invalid file type"
    ELSE "accepted"

\* Mutant of AuthPictureVerdict: the size limit is compared with >= for >.
AuthPictureVerdict_Exclusive(file) ==
    IF file.size >= MAX_FILE_SIZE THEN "File too large"
    ELSE IF file.type \notin ACCEPTED_IMAGE_TYPES THEN "Invalid file type"
    ELSE "accepted"

\* AuthForm.handleProfilePictureChange, its two checks.
AuthPictureVerdict(file) ==
    IF file.size > MAX_FILE_SIZE THEN "File too large"
    ELSE IF file.type \notin ACCEPTED_IMAGE_TYPES THEN "Invalid file type"
    ELSE "accepted"

\* The change event of the file input registered as 'profilePicture' with
\* { onChange: handleProfilePictureChange }: the form library stores the
\* input's files as the field's value, then the handler runs.  A rejected
\* file gets a toast and no preview; the handler does not touch the field.
HandleProfilePictureChange(file) ==
    /\ form \in {"settings", "register"}
    /\ profilePicture' = file
    /\ LET verdict == IF form = "settings" THEN SettingsPictureVerdict(file)
                      ELSE AuthPictureVerdict(file)
       IN  IF file = NoFile
           THEN toasts' = <<>> /\ UNCHANGED previewUrl
           ELSE IF verdict = "accepted"
           THEN toasts' = <<>> /\ previewUrl' = CreateObjectURL(file)
           ELSE toasts' = <<Toast(verdict, NoFile)>> /\ UNCHANGED previewUrl
    /\ lastEvent' = [op |-> "handleProfilePictureChange", files |-> <<file>>]
    /\ UNCHANGED <<form, loading, psub, chartVars,
                   selectedFiles, previewUrls, isSubmitting, sub, entryVars, authVars, docVars, rulesVars>>

\* if (data.profilePicture?.[0]): the run goes to the upload of the field's
\* file, or past it where the field is empty.
RunFromPicture(next) ==
    IF profilePicture # NoFile
    THEN [IdleProfileRun EXCEPT !.pc = "upload", !.file = profilePicture]
    ELSE [IdleProfileRun EXCEPT !.pc = next]

\* Settings.onSubmit up to its first await.
SettingsOnSubmit(user, data) ==
    /\ form = "settings"
    /\ ~loading
    /\ SettingsSchemaOk(data)
    /\ toasts' = <<>>
    /\ lastEvent' = [op |-> "onSubmit", files |-> <<>>, data |-> data]
    /\ IF user = NoUser
       THEN UNCHANGED <<loading, psub>>
       ELSE /\ loading' = TRUE
            /\ psub' = [RunFromPicture("updateProfile") EXCEPT
                           !.displayName = data.displayName]
    /\ UNCHANGED <<form, profilePicture, previewUrl, chartVars,
                   selectedFiles, previewUrls, isSubmitting, sub, entryVars, authVars, docVars, rulesVars>>

\* AuthForm.onRegister up to its first await, createUserWithEmailAndPassword
\* (the schema leaves no empty e-mail or password, so the first line's
\* return is not taken).  App renders the auth form only while no user is
\* signed in.
OnRegister(data) ==
    /\ form = "register"
    /\ currentUser = NoUser
    /\ ~loading
    /\ RegisterSchemaOk(data)
    /\ toasts' = <<>>
    /\ lastEvent' = [op |-> "onRegister", files |-> <<>>, data |-> data]
    /\ error' = ""
    /\ loading' = TRUE
    /\ psub' = [IdleProfileRun EXCEPT !.pc = "createUser",
                                      !.displayName = data.displayName]
    /\ UNCHANGED <<form, profilePicture, previewUrl, chartVars,
                   selectedFiles, previewUrls, isSubmitting, sub, entryVars,
                   currentUser, authProfile, isResetting, resetDialogOpen, authRun,
                   docVars, rulesVars>>

\* Mutant of ProfileRunFails: the failed call is issued again.
ProfileRunFails_Retries ==
    /\ psub' = psub
    /\ loading' = loading
    /\ error' = error
    /\ toasts' = <<Toast("Error", NoFile)>>

\* The catch and finally of both handlers: the error toast, and the
\* in-progress flag reset.
ProfileRunFails ==
    /\ psub' = IdleProfileRun
    /\ loading' = FALSE
    /\ error' = IF form = "register" THEN "failed" ELSE error
    /\ toasts' = <<Toast(IF form = "settings" THEN "Error" ELSE "Registration Failed",
                         NoFile)>>

ProfileRunGoesOn(run) ==
    /\ psub' = run
    /\ toasts' = <<>>
    /\ UNCHANGED <<loading, error>>

\* What a step of the profile run never touches.
ProfileRunFrame ==
    UNCHANGED <<form, profilePicture, previewUrl, chartVars,
                selectedFiles, previewUrls, isSubmitting, sub, entryVars,
                isResetting, resetDialogOpen, authRun, load, rulesVars>>

\* onRegister: createUserWithEmailAndPassword settles.
CreateUserSettles(user, ok) ==
    /\ psub.pc = "createUser"
    /\ IF ok
       THEN /\ ProfileRunGoesOn([RunFromPicture("updateProfile") EXCEPT
                                    !.displayName = psub.displayName])
            /\ currentUser' = user
       ELSE ProfileRunFails /\ UNCHANGED currentUser
    /\ lastEvent' = Event(IF ok THEN "createUserSettles" ELSE "createUserFailed")
    /\ UNCHANGED <<authProfile, userDoc>>
    /\ ProfileRunFrame

\* uploadBytes and getDownloadURL of the profile picture settle.
PictureUploadSettles(ok) ==
    /\ psub.pc = "upload"
    /\ IF ok
       THEN ProfileRunGoesOn([psub EXCEPT !.pc = "updateProfile",
                                          !.photoURL = [blob |-> psub.file]])
       ELSE ProfileRunFails
    /\ lastEvent' = Event(IF ok THEN "pictureUploadSettles" ELSE "pictureUploadFailed")
    /\ UNCHANGED <<currentUser, authProfile, userDoc>>
    /\ ProfileRunFrame

\* updateProfile settles.
UpdateProfileSettles(ok) ==
    /\ psub.pc = "updateProfile"
    /\ IF ok
       THEN /\ ProfileRunGoesOn([psub EXCEPT !.pc = "setDoc"])
            /\ authProfile' = [displayName |-> psub.displayName]
       ELSE ProfileRunFails /\ UNCHANGED authProfile
    /\ lastEvent' = Event(IF ok THEN "updateProfileSettles" ELSE "updateProfileFailed")
    /\ UNCHANGED <<currentUser, userDoc>>
    /\ ProfileRunFrame

\* setDoc of the users document settles; Settings reports the success.
SetDocSettles(ok) ==
    /\ psub.pc = "setDoc"
    /\ IF ok
       THEN /\ psub' = IdleProfileRun
            /\ loading' = FALSE
            /\ userDoc' = [displayName |-> psub.displayName,
                           origin |-> IF form = "settings" THEN "save" ELSE "register"]
            /\ toasts' = IF form = "settings"
                         THEN <<Toast("Settings Updated", NoFile)>> ELSE <<>>
            /\ UNCHANGED error
       ELSE ProfileRunFails /\ UNCHANGED userDoc
    /\ lastEvent' = Event(IF ok THEN "setDocSettles" ELSE "setDocFailed")
    /\ UNCHANGED <<currentUser, authProfile>>
    /\ ProfileRunFrame

\* The three forms that take files, each offered every file of AllFiles one
\* at a time.
InitGuard ==
    /\ ChartUnmounted
    /\ DashboardUnmounted
    /\ FeedbackMounted
    /\ \E f \in {"feedback", "settings", "register"} : ProfileFormMounted(f)

NextGuard ==
    \/ \E file \in AllFiles : form = "feedback" /\ HandleFileChange(<<file>>)
    \/ \E index \in 1..MaxAttachments : form = "feedback" /\ RemoveFile(index)
    \/ \E user \in Users \cup {NoUser}, data \in FeedbackInputs :
           form = "feedback" /\ OnSubmit(user, data)
    \/ \E ok \in BOOLEAN : form = "feedback" /\ UploadSettles(ok)
    \/ \E ok \in BOOLEAN : form = "feedback" /\ AddDocSettles(ok)
    \/ \E file \in AllFiles \cup {NoFile} : HandleProfilePictureChange(file)
    \/ \E user \in Users \cup {NoUser}, data \in SettingsInputs :
           SettingsOnSubmit(user, data)
    \/ \E data \in RegisterInputs : OnRegister(data)
    \/ \E user \in Users, ok \in BOOLEAN : CreateUserSettles(user, ok)
    \/ \E ok \in BOOLEAN : PictureUploadSettles(ok)
    \/ \E ok \in BOOLEAN : UpdateProfileSettles(ok)
    \/ \E ok \in BOOLEAN : SetDocSettles(ok)

SpecGuard == InitGuard /\ [][NextGuard]_vars

\* ------------------------------------------ AuthForm: sign-in and reset
\* What a step of the sign-in and reset flows never touches.
AuthFrame ==
    UNCHANGED <<chartVars, profileVars, entryVars, docVars, rulesVars, authProfile,
                selectedFiles, previewUrls, isSubmitting, sub>>

\* AuthForm.onSubmit up to its await: both branches call
\* signInWithEmailAndPassword.
AuthOnSubmit(data) ==
    /\ form = "login"
    /\ currentUser = NoUser
    /\ authRun.signIns < MaxSignIns
    /\ AuthSchemaOk(data)
    /\ error' = ""
    /\ authRun' = [authRun EXCEPT !.signIns = @ + 1]
    /\ toasts' = <<>>
    /\ lastEvent' = [op |-> "authOnSubmit", files |-> <<>>, data |-> data]
    /\ UNCHANGED <<currentUser, isResetting, resetDialogOpen>>
    /\ AuthFrame

\* signInWithEmailAndPassword settles: the session starts, or the catch
\* sets the inline error.
SignInSettles(user, ok) ==
    /\ authRun.signIns > 0
    /\ authRun' = [authRun EXCEPT !.signIns = @ - 1]
    /\ IF ok THEN currentUser' = user /\ UNCHANGED error
       ELSE error' = "failed" /\ UNCHANGED currentUser
    /\ toasts' = <<>>
    /\ lastEvent' = Event(IF ok THEN "signInSettles" ELSE "signInFailed")
    /\ UNCHANGED <<isResetting, resetDialogOpen>>
    /\ AuthFrame

\* The "Forgot your password?" link.
OpenResetDialog ==
    /\ form = "reset"
    /\ currentUser = NoUser
    /\ ~resetDialogOpen
    /\ resetDialogOpen' = TRUE
    /\ toasts' = <<>>
    /\ lastEvent' = Event("openResetDialog")
    /\ UNCHANGED <<currentUser, error, isResetting, authRun>>
    /\ AuthFrame

\* AuthForm.onReset up to its await.
OnReset(data) ==
    /\ form = "reset"
    /\ currentUser = NoUser
    /\ resetDialogOpen
    /\ ~isResetting
    /\ ResetSchemaOk(data)
    /\ error' = ""
    /\ isResetting' = TRUE
    /\ authRun' = [authRun EXCEPT !.sendReset = TRUE]
    /\ toasts' = <<>>
    /\ lastEvent' = [op |-> "onReset", files |-> <<>>, data |-> data]
    /\ UNCHANGED <<currentUser, resetDialogOpen>>
    /\ AuthFrame

\* sendPasswordResetEmail settles.
ResetSettles(ok) ==
    /\ authRun.sendReset
    /\ authRun' = [authRun EXCEPT !.sendReset = FALSE]
    /\ isResetting' = FALSE
    /\ IF ok
       THEN /\ toasts' = <<Toast("Reset Email Sent", NoFile)>>
            /\ resetDialogOpen' = FALSE
            /\ UNCHANGED error
       ELSE /\ toasts' = <<>>
            /\ error' = "failed"
            /\ UNCHANGED resetDialogOpen
    /\ lastEvent' = Event(IF ok THEN "resetSettles" ELSE "resetFailed")
    /\ UNCHANGED currentUser
    /\ AuthFrame

\* The form is on screen and its submit button is not disabled.
CanSubmit(f) ==
    CASE f = "login" -> currentUser = NoUser
      [] f = "register" -> currentUser = NoUser /\ ~loading
      [] f = "reset" -> currentUser = NoUser /\ resetDialogOpen /\ ~isResetting
      [] f = "dashboard" -> showNewEntryDialog /\ ~entryForm.isSubmitting
      [] f = "feedback" -> ~isSubmitting
      [] f = "settings" -> ~loading

\* handleSubmit(...) with a field that fails its schema: the errors are
\* shown at the fields and the form's handler is not called.
SubmitInvalid(data) ==
    /\ CanSubmit(form)
    /\ data \in FormInputs(form)
    /\ ~SchemaOk(form, data)
    /\ toasts' = <<>>
    /\ lastEvent' = [op |-> "invalid", files |-> <<>>, data |-> data]
    /\ UNCHANGED <<chartVars, profileVars, entryVars, authVars, docVars, rulesVars,
                   selectedFiles, previewUrls, isSubmitting, sub>>

\* ------------------------------------------- Settings.loadUserProfile
\* What a step of loadUserProfile never touches (the display name and the
\* preview it puts into the form from an existing document are not
\* followed: the document's photoURL is left out of the model).
LoadFrame ==
    UNCHANGED <<chartVars, profileVars, entryVars, authVars, rulesVars,
                selectedFiles, previewUrls, isSubmitting, sub>>

\* The settings page is mounted for the signed-in user: the effect calls
\* loadUserProfile, which awaits getDoc.
SettingsMounts ==
    /\ form \in {"settings", "register"}
    /\ currentUser # NoUser
    /\ load.pc = "idle"
    /\ load' = [IdleLoad EXCEPT !.pc = "getDoc"]
    /\ toasts' = <<>>
    /\ lastEvent' = Event("settingsMounts")
    /\ UNCHANGED userDoc
    /\ LoadFrame

\* getDoc settles: with no document the default one is built from the
\* account (user.displayName || '') and setDoc awaited.
GetDocSettles(ok) ==
    /\ load.pc = "getDoc"
    /\ IF ok /\ userDoc = NoDoc
       THEN load' = [pc |-> "setDoc",
                     doc |-> [displayName |-> authProfile.displayName, origin |-> "lazy"]]
       ELSE load' = IdleLoad
    /\ toasts' = IF ok THEN <<>> ELSE <<Toast("Error", NoFile)>>
    /\ lastEvent' = Event(IF ok THEN "getDocSettles" ELSE "getDocFailed")
    /\ UNCHANGED userDoc
    /\ LoadFrame

\* The setDoc of loadUserProfile settles: it is made without merge and puts
\* the default document in the place of whatever is there.  The load and a
\* save or registration of the same user may run in two sessions (tabs,
\* devices): the store applies the writes in the order they arrive.
LazySetDocSettles(ok) ==
    /\ load.pc = "setDoc"
    /\ load' = IdleLoad
    /\ IF ok THEN userDoc' = load.doc /\ toasts' = <<>>
       ELSE toasts' = <<Toast("Error", NoFile)>> /\ UNCHANGED userDoc
    /\ lastEvent' = Event(IF ok THEN "lazySetDocSettles" ELSE "lazySetDocFailed")
    /\ LoadFrame

\* The settings page of a signed-in user whose account has or has not a
\* display name, and the registration form; no users document yet.
InitProfile ==
    /\ ChartUnmounted
    /\ DashboardUnmounted
    /\ FeedbackMounted
    /\ form \in {"settings", "register"}
    /\ profilePicture = NoFile
    /\ previewUrl = NoUrl
    /\ loading = FALSE
    /\ psub = IdleProfileRun
    /\ currentUser = IF form = "register" THEN NoUser ELSE "u1"
    /\ authProfile \in {[displayName |-> n] : n \in IF form = "register" THEN {0} ELSE {0, 2}}
    /\ error = ""
    /\ isResetting = FALSE
    /\ resetDialogOpen = FALSE
    /\ authRun = IdleAuthRun
    /\ userDoc = NoDoc
    /\ load = IF form = "settings" THEN [IdleLoad EXCEPT !.pc = "getDoc"] ELSE IdleLoad
    /\ RulesIdle

NextProfile ==
    \/ SettingsMounts
    \/ \E ok \in BOOLEAN : GetDocSettles(ok)
    \/ \E ok \in BOOLEAN : LazySetDocSettles(ok)
    \/ HandleProfilePictureChange(File(1, "image/png"))
    \/ \E user \in Users, data \in SettingsInputs : SettingsOnSubmit(user, data)
    \/ \E data \in RegisterInputs : OnRegister(data)
    \/ \E user \in Users, ok \in BOOLEAN : CreateUserSettles(user, ok)
    \/ \E ok \in BOOLEAN : PictureUploadSettles(ok)
    \/ \E ok \in BOOLEAN : UpdateProfileSettles(ok)
    \/ \E ok \in BOOLEAN : SetDocSettles(ok)

SpecProfile == InitProfile /\ [][NextProfile]_vars

\* ------------------------------- Dashboard: entries, query, delete, new entry
\* Most documents addDoc creates in a run of the model.
MaxDocs == 2

\* A document of painEntries as the query maps it.
Doc(id, userId, level, t) ==
    [id |-> id, userId |-> userId, painLevel |-> level, date |-> t]

Ids(docs) == {d.id : d \in docs}

IdsOf(es) == {es[k].id : k \in 1..Len(es)}

RECURSIVE QueryResult(_, _)
\* getDocs(query(collection, where('userId', '==', uid), orderBy('date',
\* 'desc'))): newest first, documents of one date by id.
QueryResult(docs, uid) ==
    LET mine == {d \in docs : d.userId = uid}
    IN  IF mine = {} THEN <<>>
        ELSE LET first == CHOOSE d \in mine :
                     \A o \in mine : d.date > o.date
                                       \/ (d.date = o.date /\ d.id >= o.id)
             IN  <<first>> \o QueryResult(mine \ {first}, uid)

\* refetch() and invalidateQueries(): a fetch in flight is cancelled (its
\* answer is dropped) and a new one is started.
Refetch(q) ==
    [q EXCEPT !.status = "fetching", !.answered = FALSE, !.answer = <<>>,
              !.uid = currentUser]

\* Mutant of RefetchAfterDelete: handleDelete starts no fetch.
RefetchAfterDelete_Skipped(q) == q

\* handleDelete, after deleteDoc: refetch()
RefetchAfterDelete(q) == Refetch(q)

\* Mutant of AfterInvalidate: the await of invalidateQueries never returns.
AfterInvalidate_Hangs == UNCHANGED <<entryForm, showNewEntryDialog>>

\* await queryClient.invalidateQueries(...) is over once the fetch it started
\* has settled or has been cancelled; onSubmit then calls onSuccess (the
\* dashboard closes the dialog) and, in finally, resets isSubmitting.
AfterInvalidate ==
    IF entryForm.pc = "invalidate"
    THEN entryForm' = IdleEntryForm /\ showNewEntryDialog' = FALSE
    ELSE UNCHANGED <<entryForm, showNewEntryDialog>>

\* The window regains focus: refetchOnWindowFocus starts a fetch unless one
\* is in flight.
RefetchOnWindowFocus ==
    /\ form = "dashboard"
    /\ query.status = "idle"
    /\ query' = Refetch(query)
    /\ toasts' = <<>>
    /\ lastEvent' = Event("focus")
    /\ UNCHANGED <<store, nextId, deleting, entryForm, showNewEntryDialog,
                   chartVars, profileVars, selectedFiles, previewUrls, isSubmitting, sub,
                   authVars, docVars, rulesVars>>

\* The server evaluates the query of the fetch in flight (where userId ==
\* uid), under the credentials the client holds: the read rule of
\* painEntries admits it for that user only.
ServerAnswers(user) ==
    /\ form = "dashboard"
    /\ query.status = "fetching"
    /\ ~query.answered
    /\ user = query.uid
    /\ user = currentUser
    /\ query' = [query EXCEPT !.answered = TRUE, !.answer = QueryResult(store, user)]
    /\ toasts' = <<>>
    /\ lastEvent' = Event("serverAnswers")
    /\ UNCHANGED <<store, nextId, deleting, entryForm, showNewEntryDialog,
                   chartVars, profileVars, selectedFiles, previewUrls, isSubmitting, sub,
                   authVars, docVars, rulesVars>>

\* The fetch in flight settles: its answer becomes the query's data, or the
\* query goes to its error state and keeps the data it had.
FetchSettles(ok) ==
    /\ form = "dashboard"
    /\ query.status = "fetching"
    /\ IF ok
       THEN /\ query.answered
            /\ Rendered(query.answer, dateRange)
            /\ query' = IdleQuery
       ELSE /\ query' = [IdleQuery EXCEPT !.error = TRUE]
            /\ UNCHANGED chartVars
    /\ AfterInvalidate
    /\ toasts' = <<>>
    /\ lastEvent' = [Event("fetchSettles") EXCEPT !.op = IF ok THEN "fetched" ELSE "fetchFailed"]
    /\ UNCHANGED <<store, nextId, deleting,
                   profileVars, selectedFiles, previewUrls, isSubmitting, sub,
                   authVars, docVars, rulesVars>>

\* PainEntriesTable.handleDelete up to its await: the confirm button of a
\* row of the table.
HandleDelete(id) ==
    /\ form = "dashboard"
    /\ ~query.error
    /\ id \in IdsOf(filteredEntries)
    /\ id \notin deleting
    /\ deleting' = deleting \cup {id}
    /\ toasts' = <<>>
    /\ lastEvent' = Event("handleDelete")
    /\ UNCHANGED <<store, nextId, query, entryForm, showNewEntryDialog,
                   chartVars, profileVars, selectedFiles, previewUrls, isSubmitting, sub,
                   authVars, docVars, rulesVars>>

\* handleDelete after deleteDoc: refetch() and the toast, or the catch.
DeleteSettles(id, ok) ==
    /\ form = "dashboard"
    /\ id \in deleting
    /\ deleting' = deleting \ {id}
    /\ IF ok
       THEN /\ store' = {d \in store : d.id # id}
            /\ query' = RefetchAfterDelete(query)
            /\ IF query.status = "fetching" THEN AfterInvalidate
               ELSE UNCHANGED <<entryForm, showNewEntryDialog>>
            /\ toasts' = <<Toast("Entry Deleted", NoFile)>>
       ELSE /\ toasts' = <<Toast("Error", NoFile)>>
            /\ UNCHANGED <<store, query, entryForm, showNewEntryDialog>>
    /\ lastEvent' = [Event("deleteSettles") EXCEPT !.op = IF ok THEN "deleted" ELSE "deleteFailed"]
    /\ UNCHANGED <<nextId, chartVars, profileVars,
                   selectedFiles, previewUrls, isSubmitting, sub, authVars, docVars, rulesVars>>

\* Dashboard: the New Pain Entry button.
OpenNewEntryDialog ==
    /\ form = "dashboard"
    /\ ~showNewEntryDialog
    /\ showNewEntryDialog' = TRUE
    /\ toasts' = <<>>
    /\ lastEvent' = Event("openDialog")
    /\ UNCHANGED <<store, nextId, query, deleting, entryForm,
                   chartVars, profileVars, selectedFiles, previewUrls, isSubmitting, sub,
                   authVars, docVars, rulesVars>>

\* NewEntryForm.onSubmit up to its await.  The submit button is disabled
\* while isSubmitting; without a signed-in user the handler returns through
\* finally, which resets the flag it just set.
EntryOnSubmit(user, data) ==
    /\ form = "dashboard"
    /\ showNewEntryDialog
    /\ ~entryForm.isSubmitting
    /\ EntrySchemaOk(data)
    /\ nextId <= MaxDocs
    /\ IF user = NoUser
       THEN UNCHANGED entryForm
       ELSE entryForm' = [isSubmitting |-> TRUE, pc |-> "addDoc",
                          painLevel |-> data.painLevel, date |-> data.date]
    /\ toasts' = <<>>
    /\ lastEvent' = [op |-> "entryOnSubmit", files |-> <<>>, data |-> data]
    /\ UNCHANGED <<store, nextId, query, deleting, showNewEntryDialog,
                   chartVars, profileVars, selectedFiles, previewUrls, isSubmitting, sub,
                   authVars, docVars, rulesVars>>

\* NewEntryForm.onSubmit after addDoc: the form is reset, the success toast
\* raised and the query invalidated; or the catch and finally.
EntryAddDocSettles(user, ok) ==
    /\ form = "dashboard"
    /\ entryForm.pc = "addDoc"
    /\ IF ok
       THEN /\ store' = store \cup {Doc(nextId, user, entryForm.painLevel, entryForm.date)}
            /\ nextId' = nextId + 1
            /\ entryForm' = [entryForm EXCEPT !.pc = "invalidate"]
            /\ query' = Refetch(query)
            /\ toasts' = <<Toast("Entry Added", NoFile)>>
       ELSE /\ entryForm' = IdleEntryForm
            /\ toasts' = <<Toast("Error", NoFile)>>
            /\ UNCHANGED <<store, nextId, query>>
    /\ lastEvent' = [Event("entryAddDocSettles") EXCEPT !.op = IF ok THEN "added" ELSE "addFailed"]
    /\ UNCHANGED <<deleting, showNewEntryDialog, chartVars, profileVars,
                   selectedFiles, previewUrls, isSubmitting, sub, authVars, docVars, rulesVars>>

\* The dashboard as mounted: the default window, the query fetching
\* (refetchOnMount), the collection empty.
DashboardMounted ==
    /\ entries = <<>>
    /\ dateRange = defaultDateRange
    /\ chartData = <<>>
    /\ filteredEntries = <<>>
    /\ dateParse = "year2001"
    /\ store = {}
    /\ nextId = 1
    /\ query = Refetch(IdleQuery)
    /\ deleting = {}
    /\ entryForm = IdleEntryForm
    /\ showNewEntryDialog = FALSE

InitEntries ==
    /\ FeedbackMounted
    /\ ProfileFormMounted("dashboard")
    /\ DashboardMounted

NextEntries ==
    \/ RefetchOnWindowFocus
    \/ \E user \in Users : ServerAnswers(user)
    \/ \E ok \in BOOLEAN : FetchSettles(ok)
    \/ \E id \in 1..MaxDocs : HandleDelete(id)
    \/ \E id \in 1..MaxDocs, ok \in BOOLEAN : DeleteSettles(id, ok)
    \/ OpenNewEntryDialog
    \/ \E user \in Users \cup {NoUser}, data \in EntryInputs : EntryOnSubmit(user, data)
    \/ \E user \in Users, ok \in BOOLEAN : EntryAddDocSettles(user, ok)

SpecEntries == InitEntries /\ [][NextEntries]_vars

\* ------------------------------------------------------- the application
Pages == {"dashboard", "feedback", "settings", "register", "login", "reset"}

\* The pictures offered to the profile forms where the forms' flows, not
\* the guard, are followed: one the guard accepts, one it rejects.
SomePictures == {File(1, "image/png"), File(MAX_FILE_SIZE + 1, "image/png")}

\* One of the pages as mounted.
InitApp ==
    /\ FeedbackMounted
    /\ \E f \in Pages : ProfileFormMounted(f)
    /\ IF form = "dashboard" THEN DashboardMounted
       ELSE ChartUnmounted /\ DashboardUnmounted

NextApp ==
    \/ NextEntries
    \/ \E file \in FeedbackFiles : form = "feedback" /\ HandleFileChange(<<file>>)
    \/ \E index \in 1..MaxAttachments : form = "feedback" /\ RemoveFile(index)
    \/ \E user \in Users \cup {NoUser}, data \in FeedbackInputs :
           form = "feedback" /\ OnSubmit(user, data)
    \/ \E ok \in BOOLEAN : UploadSettles(ok)
    \/ \E ok \in BOOLEAN : AddDocSettles(ok)
    \/ \E file \in SomePictures : HandleProfilePictureChange(file)
    \/ \E user \in Users \cup {NoUser}, data \in SettingsInputs :
           SettingsOnSubmit(user, data)
    \/ \E data \in RegisterInputs : OnRegister(data)
    \/ \E user \in Users, ok \in BOOLEAN : CreateUserSettles(user, ok)
    \/ \E ok \in BOOLEAN : PictureUploadSettles(ok)
    \/ \E ok \in BOOLEAN : UpdateProfileSettles(ok)
    \/ \E ok \in BOOLEAN : SetDocSettles(ok)
    \/ SettingsMounts
    \/ \E ok \in BOOLEAN : GetDocSettles(ok)
    \/ \E ok \in BOOLEAN : LazySetDocSettles(ok)
    \/ \E data \in LoginInputs : AuthOnSubmit(data)
    \/ \E user \in Users, ok \in BOOLEAN : SignInSettles(user, ok)
    \/ OpenResetDialog
    \/ \E data \in ResetInputs : OnReset(data)
    \/ \E ok \in BOOLEAN : ResetSettles(ok)
    \/ \E data \in FormInputs(form) : SubmitInvalid(data)

SpecApp == InitApp /\ [][NextApp]_vars

\* ------------------------------------------- the submit flows, under fairness
\* The pages that hold a submit flow with an in-progress flag.
FlowPages == {"dashboard", "feedback", "settings", "register", "reset"}

\* One entry and one attachment are enough to follow the flows to their ends.
FlowEntryInputs == {[painLevel |-> 4, date |-> 0]}
FlowFiles == {File(1, "image/jpeg")}

InitFlows ==
    /\ FeedbackMounted
    /\ \E f \in FlowPages : ProfileFormMounted(f)
    /\ IF form = "dashboard" THEN DashboardMounted
       ELSE ChartUnmounted /\ DashboardUnmounted

NextFlows ==
    \/ \E user \in Users : ServerAnswers(user)
    \/ \E ok \in BOOLEAN : FetchSettles(ok)
    \/ \E id \in 1..MaxDocs : HandleDelete(id)
    \/ \E id \in 1..MaxDocs, ok \in BOOLEAN : DeleteSettles(id, ok)
    \/ OpenNewEntryDialog
    \/ \E user \in Users \cup {NoUser}, data \in FlowEntryInputs : EntryOnSubmit(user, data)
    \/ \E user \in Users, ok \in BOOLEAN : EntryAddDocSettles(user, ok)
    \/ \E file \in FlowFiles : form = "feedback" /\ HandleFileChange(<<file>>)
    \/ \E user \in Users \cup {NoUser}, data \in FeedbackInputs :
           form = "feedback" /\ OnSubmit(user, data)
    \/ \E ok \in BOOLEAN : UploadSettles(ok)
    \/ \E ok \in BOOLEAN : AddDocSettles(ok)
    \/ \E file \in SomePictures : HandleProfilePictureChange(file)
    \/ \E user \in Users \cup {NoUser}, data \in SettingsInputs :
           SettingsOnSubmit(user, data)
    \/ \E data \in RegisterInputs : OnRegister(data)
    \/ \E user \in Users, ok \in BOOLEAN : CreateUserSettles(user, ok)
    \/ \E ok \in BOOLEAN : PictureUploadSettles(ok)
    \/ \E ok \in BOOLEAN : UpdateProfileSettles(ok)
    \/ \E ok \in BOOLEAN : SetDocSettles(ok)
    \/ OpenResetDialog
    \/ \E data \in ResetInputs : OnReset(data)
    \/ \E ok \in BOOLEAN : ResetSettles(ok)

\* Every backend call eventually succeeds or fails.
CallsSettle ==
    /\ WF_vars(\E ok \in BOOLEAN : FetchSettles(ok))
    /\ WF_vars(\E user \in Users, ok \in BOOLEAN : EntryAddDocSettles(user, ok))
    /\ WF_vars(\E ok \in BOOLEAN : UploadSettles(ok))
    /\ WF_vars(\E ok \in BOOLEAN : AddDocSettles(ok))
    /\ WF_vars(\E user \in Users, ok \in BOOLEAN : CreateUserSettles(user, ok))
    /\ WF_vars(\E ok \in BOOLEAN : PictureUploadSettles(ok))
    /\ WF_vars(\E ok \in BOOLEAN : UpdateProfileSettles(ok))
    /\ WF_vars(\E ok \in BOOLEAN : SetDocSettles(ok))
    /\ WF_vars(\E ok \in BOOLEAN : ResetSettles(ok))

SpecFlows == InitFlows /\ [][NextFlows]_vars /\ CallsSettle

\* ------------------------------------------------------ the store's rules
\* The identities a request can carry: two accounts, or none (request.auth
\* == null).
Requesters == {"u1", "u2"}

\* The content of a feedback document, by revision.
FeedbackContents == {1, 2}

\* A document of the feedback collection.
FeedbackDoc(id, userId, content) == [id |-> id, userId |-> userId, feedback |-> content]

\* The documents a write request can carry (request.resource.data).
IncomingEntries == {Doc(0, u, l, 0) : u \in Requesters, l \in Levels}
IncomingFeedback == {FeedbackDoc(0, u, c) : u \in Requesters, c \in FeedbackContents}

\* The method of a write to a document id: create where none exists,
\* update where one does.
WriteMethod(docs, id) == IF id \in Ids(docs) THEN "update" ELSE "create"

\* The document of the collection with the id (resource).
Resource(docs, id) == CHOOSE d \in docs : d.id = id

\* match /painEntries/{entry}
PainEntriesAllow(method, auth, resource, incoming) ==
    CASE method = "read" -> auth # NoUser /\ auth = resource.userId
      [] method = "create" -> auth # NoUser /\ auth = incoming.userId
      [] method \in {"update", "delete"} -> auth # NoUser /\ auth = resource.userId

\* Mutant of FeedbackAllow: the owner may also update.
FeedbackAllow_OwnerUpdates(method, auth, resource, incoming) ==
    CASE method = "create" -> auth # NoUser /\ auth = incoming.userId
      [] method = "update" -> auth # NoUser /\ auth = resource.userId
      [] OTHER -> FALSE

\* match /feedback/{feedbackId}: create for the owner, read: if false, and
\* no allow statement for update and delete.
FeedbackAllow(method, auth, resource, incoming) ==
    CASE method = "create" -> auth # NoUser /\ auth = incoming.userId
      [] method = "read" -> FALSE
      [] OTHER -> FALSE

Requested(collection, method, auth, id, allowed) ==
    [collection |-> collection, method |-> method, auth |-> auth, id |-> id,
     allowed |-> allowed]

RulesFrame ==
    UNCHANGED <<chartVars, feedbackVars, profileVars, authVars, docVars,
                query, deleting, entryForm, showNewEntryDialog>>

\* A client writes a document of painEntries: with a new id (addDoc, setDoc
\* of an absent document) or in the place of an existing one.
WriteEntry(auth, id, incoming) ==
    LET method == WriteMethod(store, id)
        resource == IF method = "update" THEN Resource(store, id) ELSE incoming
        allowed == PainEntriesAllow(method, auth, resource, incoming)
        written == [incoming EXCEPT !.id = id]
    IN  /\ id \in 1..nextId
        /\ id <= MaxDocs
        /\ id \notin Ids(feedbackDocs)
        /\ method = "create" => id = nextId
        /\ request' = Requested("painEntries", method, auth, id, allowed)
        /\ IF allowed
           THEN /\ store' = {d \in store : d.id # id} \cup {written}
                /\ creator' = IF method = "create" THEN (id :> auth) @@ creator ELSE creator
                /\ nextId' = IF method = "create" THEN nextId + 1 ELSE nextId
           ELSE UNCHANGED <<store, creator, nextId>>
        /\ UNCHANGED feedbackDocs
        /\ RulesFrame

\* A client deletes a document of painEntries.
DeleteEntry(auth, id) ==
    /\ id \in Ids(store)
    /\ LET allowed == PainEntriesAllow("delete", auth, Resource(store, id), Resource(store, id))
       IN  /\ request' = Requested("painEntries", "delete", auth, id, allowed)
           /\ IF allowed
              THEN /\ store' = {d \in store : d.id # id}
                   /\ creator' = [i \in DOMAIN creator \ {id} |-> creator[i]]
              ELSE UNCHANGED <<store, creator>>
    /\ UNCHANGED <<nextId, feedbackDocs>>
    /\ RulesFrame

\* A client reads a document of painEntries.
ReadEntry(auth, id) ==
    /\ id \in Ids(store)
    /\ request' = Requested("painEntries", "read", auth, id,
                            PainEntriesAllow("read", auth, Resource(store, id), Resource(store, id)))
    /\ UNCHANGED <<store, creator, nextId, feedbackDocs>>
    /\ RulesFrame

\* A client writes a document of feedback.
WriteFeedback(auth, id, incoming) ==
    LET method == WriteMethod(feedbackDocs, id)
        resource == IF method = "update" THEN Resource(feedbackDocs, id) ELSE incoming
        allowed == FeedbackAllow(method, auth, resource, incoming)
        written == [incoming EXCEPT !.id = id]
    IN  /\ id \in 1..nextId
        /\ id <= MaxDocs
        /\ id \notin Ids(store)
        /\ method = "create" => id = nextId
        /\ request' = Requested("feedback", method, auth, id, allowed)
        /\ IF allowed
           THEN /\ feedbackDocs' = {d \in feedbackDocs : d.id # id} \cup {written}
                /\ nextId' = IF method = "create" THEN nextId + 1 ELSE nextId
           ELSE UNCHANGED <<feedbackDocs, nextId>>
        /\ UNCHANGED <<store, creator>>
        /\ RulesFrame

\* A client deletes a document of feedback.
DeleteFeedback(auth, id) ==
    /\ id \in Ids(feedbackDocs)
    /\ LET allowed == FeedbackAllow("delete", auth, Resource(feedbackDocs, id),
                                    Resource(feedbackDocs, id))
       IN  /\ request' = Requested("feedback", "delete", auth, id, allowed)
           /\ IF allowed
              THEN feedbackDocs' = {d \in feedbackDocs : d.id # id}
              ELSE UNCHANGED feedbackDocs
    /\ UNCHANGED <<store, creator, nextId>>
    /\ RulesFrame

\* A client reads a document of feedback.
ReadFeedback(auth, id) ==
    /\ id \in Ids(feedbackDocs)
    /\ request' = Requested("feedback", "read", auth, id,
                            FeedbackAllow("read", auth, Resource(feedbackDocs, id),
                                          Resource(feedbackDocs, id)))
    /\ UNCHANGED <<store, creator, nextId, feedbackDocs>>
    /\ RulesFrame

\* Both collections empty, no page followed.
InitRules ==
    /\ ChartUnmounted
    /\ DashboardUnmounted
    /\ FeedbackMounted
    /\ ProfileFormMounted("dashboard")

NextRules ==
    \/ \E auth \in Requesters \cup {NoUser}, id \in 1..MaxDocs, incoming \in IncomingEntries :
           WriteEntry(auth, id, incoming)
    \/ \E auth \in Requesters \cup {NoUser}, id \in 1..MaxDocs : DeleteEntry(auth, id)
    \/ \E auth \in Requesters \cup {NoUser}, id \in 1..MaxDocs : ReadEntry(auth, id)
    \/ \E auth \in Requesters \cup {NoUser}, id \in 1..MaxDocs, incoming \in IncomingFeedback :
           WriteFeedback(auth, id, incoming)
    \/ \E auth \in Requesters \cup {NoUser}, id \in 1..MaxDocs : DeleteFeedback(auth, id)
    \/ \E auth \in Requesters \cup {NoUser}, id \in 1..MaxDocs : ReadFeedback(auth, id)

SpecRules == InitRules /\ [][NextRules]_vars

\* ---------------------------------------------------- the storage rules
\* The path prefixes of the storage rules.
StoragePrefixes == {"profile-pictures", "feedback-attachments"}

\* The files of an upload request: sizes about the limit, an image type of
\* the client's list, an image type outside it, and a type that is no image.
StorageSizes == {1, MAX_FILE_SIZE - 1, MAX_FILE_SIZE, MAX_FILE_SIZE + 1}
StorageTypes == {"image/png", "image/gif", "application/pdf"}
StorageFiles == {File(size, type) : size \in StorageSizes, type \in StorageTypes}

\* request.resource.contentType.matches('image/.*'), on the content types
\* of the model.
MatchesImage(type) ==
    type \in {"image/jpeg", "image/jpg", "image/png", "image/webp", "image/gif"}

\* The condition the two write rules share, on a request that carries a
\* file (a delete carries none: request.resource is null and the
\* condition fails).
StorageWriteOk(method, auth, userId, file) ==
    /\ auth # NoUser
    /\ auth = userId
    /\ method # "delete"
    /\ file.size < 5 * 1024 * 1024
    /\ MatchesImage(file.type)

\* match /profile-pictures/{userId}/{allPaths=**} and
\* match /feedback-attachments/{userId}/{allPaths=**}
StorageAllow(prefix, method, auth, userId, file) ==
    CASE prefix = "profile-pictures" ->
             IF method = "read" THEN auth # NoUser
             ELSE StorageWriteOk(method, auth, userId, file)
      [] prefix = "feedback-attachments" ->
             CASE method = "read" -> auth # NoUser /\ auth = userId
               [] method = "create" -> StorageWriteOk(method, auth, userId, file)
               [] OTHER -> FALSE

StorageFrame ==
    UNCHANGED <<chartVars, feedbackVars, profileVars, entryVars, authVars, docVars,
                creator, feedbackDocs>>

\* A client asks the storage service to read, create, replace or delete the
\* object at <prefix>/<userId>/...; a write carries the file.
StorageRequest(prefix, method, auth, userId, file) ==
    /\ request' = [collection |-> prefix, method |-> method, auth |-> auth, id |-> 0,
                   allowed |-> StorageAllow(prefix, method, auth, userId, file),
                   userId |-> userId,
                   file |-> IF method \in {"read", "delete"} THEN NoFile ELSE file]
    /\ StorageFrame

InitStorage == InitRules

NextStorage ==
    \/ \E prefix \in StoragePrefixes, auth \in Requesters \cup {NoUser},
          userId \in Requesters, file \in StorageFiles :
           \/ StorageRequest(prefix, "create", auth, userId, file)
           \/ StorageRequest(prefix, "update", auth, userId, file)
    \/ \E prefix \in StoragePrefixes, auth \in Requesters \cup {NoUser},
          userId \in Requesters :
           \/ StorageRequest(prefix, "read", auth, userId, NoFile)
           \/ StorageRequest(prefix, "delete", auth, userId, NoFile)

SpecStorage == InitStorage /\ [][NextStorage]_vars

\* -------------------------------------------------- the session and the query
\* The collections the session starts from: entries of both accounts,
\* written in earlier sessions.
SessionStores ==
    {docs \in SUBSET {Doc(1, "u1", 4, 0), Doc(2, "u1", 9, 0), Doc(3, "u2", 4, 0)} :
        docs # {}}

\* Firestore re-opens its streams when the credentials change: an answer
\* under way for the fetch in flight is dropped.
CredentialsChanged(q) ==
    IF q.status = "fetching" THEN [q EXCEPT !.answered = FALSE, !.answer = <<>>] ELSE q

\* App: the callback of onAuthStateChanged, setUser(user), and the render
\* it causes.  With no user, AuthForm is rendered and the dashboard
\* unmounts: the query loses its observer and, unless a fetch is in
\* flight, is removed from the cache (cacheTime: 0).  With a user after
\* none, the dashboard mounts: useQuery starts a fetch (refetchOnMount) or
\* joins the one in flight.  With a user after another user the same tree
\* is rendered again: nothing is unmounted, invalidated or refetched.
AuthStateChanged(user) ==
    /\ form \in {"dashboard", "login"}
    /\ user # currentUser
    /\ currentUser' = user
    /\ CASE user = NoUser ->
                /\ form' = "login"
                /\ entries' = <<>>
                /\ chartData' = <<>>
                /\ filteredEntries' = <<>>
                /\ query' = IF query.status = "fetching" THEN CredentialsChanged(query)
                            ELSE IdleQuery
         [] user # NoUser /\ currentUser = NoUser ->
                /\ form' = "dashboard"
                /\ query' = IF query.status = "fetching" THEN CredentialsChanged(query)
                            ELSE [Refetch(query) EXCEPT !.uid = user]
                /\ UNCHANGED <<entries, chartData, filteredEntries>>
         [] OTHER ->
                /\ query' = CredentialsChanged(query)
                /\ UNCHANGED <<form, entries, chartData, filteredEntries>>
    /\ toasts' = <<>>
    /\ lastEvent' = Event("authStateChanged")
    /\ UNCHANGED <<dateRange, dateParse, store, nextId, deleting, entryForm,
                   showNewEntryDialog, selectedFiles, previewUrls, isSubmitting, sub,
                   profilePicture, previewUrl, loading, psub,
                   authProfile, error, isResetting, resetDialogOpen, authRun,
                   docVars, rulesVars>>

SessionFrame ==
    UNCHANGED <<store, nextId, deleting, entryForm, showNewEntryDialog,
                chartVars, profileVars, selectedFiles, previewUrls, isSubmitting, sub,
                authVars, docVars, rulesVars>>

\* An attempt of the fetch in flight fails and the query retries (retry is
\* left at its default): queryFn runs again and reads auth.currentUser.
FetchRetries ==
    /\ form = "dashboard"
    /\ query.status = "fetching"
    /\ query' = Refetch(query)
    /\ toasts' = <<>>
    /\ lastEvent' = Event("fetchRetries")
    /\ SessionFrame

\* The fetch in flight fails with the dashboard unmounted: no retry is made
\* and the query, without observers, is removed from the cache.
FetchFailsUnobserved ==
    /\ form = "login"
    /\ query.status = "fetching"
    /\ query' = IdleQuery
    /\ toasts' = <<>>
    /\ lastEvent' = Event("fetchFailed")
    /\ SessionFrame

\* u1 is signed in and the dashboard has just mounted.
InitSession ==
    /\ FeedbackMounted
    /\ ProfileFormMounted("dashboard")
    /\ entries = <<>>
    /\ dateRange = defaultDateRange
    /\ chartData = <<>>
    /\ filteredEntries = <<>>
    /\ dateParse = "year2001"
    /\ store \in SessionStores
    /\ nextId = 4
    /\ query = Refetch(IdleQuery)
    /\ deleting = {}
    /\ entryForm = IdleEntryForm
    /\ showNewEntryDialog = FALSE

NextSession ==
    \/ \E user \in Requesters \cup {NoUser} : AuthStateChanged(user)
    \/ \E user \in Requesters : ServerAnswers(user)
    \/ \E ok \in BOOLEAN : FetchSettles(ok)
    \/ FetchRetries
    \/ FetchFailsUnobserved
    \/ RefetchOnWindowFocus

SpecSession == InitSession /\ [][NextSession]_vars

\* ------------------------------------------- Entry Aggregator: properties
\* What the claims speak of, stated on calendar days and not through the
\* aggregator's own steps.
LabelOfDay(d) == [mon |-> MonthName(Ymd(d).m), d |-> Ymd(d).d]

\* The indices of the entries the filter step retains.
RetainedIdx == {i \in 1..Len(entries) : InWindow(entries[i], dateRange)}

RetainedDays == {DayOf(entries[i].date) : i \in RetainedIdx}

\* The indices of the entries whose calendar day lies in the window, both
\* bound days included, whatever the times of day.
CalendarIdx ==
    {i \in 1..Len(entries) :
        /\ DayOf(dateRange.from) <= DayOf(entries[i].date)
        /\ DayOf(entries[i].date) <= DayOf(dateRange.to)}

RECURSIVE Pick(_, _, _)
\* The subsequence of es at the indices in idx, from index i on.
Pick(es, idx, i) ==
    IF i > Len(es) THEN <<>>
    ELSE (IF i \in idx THEN <<es[i]>> ELSE <<>>) \o Pick(es, idx, i + 1)

RECURSIVE Ascending(_)
\* The numbers of S in ascending order.
Ascending(S) ==
    IF S = {} THEN <<>>
    ELSE LET m == CHOOSE x \in S : \A y \in S : x <= y
         IN  <<m>> \o Ascending(S \ {m})

RECURSIVE SumLevels(_)
SumLevels(es) == IF es = <<>> THEN 0 ELSE Head(es).painLevel + SumLevels(Tail(es))

\* The retained entries of calendar day d.
RetainedOfDay(d) ==
    Pick(entries, {i \in RetainedIdx : DayOf(entries[i].date) = d}, 1)

Abs(x) == IF x < 0 THEN -x ELSE x

\* A window that covers every day of the model, from midnight of the first
\* to the last tick of the last.
WholeWindow ==
    [from |-> CHOOSE t \in Ticks : \A u \in Ticks : t <= u,
     to |-> CHOOSE t \in Ticks : \A u \in Ticks : t >= u]

\* C1 (as claimed): the entries that reach the table and the chart are exactly
\* those whose calendar day d satisfies from <= d <= to, times of day ignored:
\* the table lists as many entries as lie on a day of the window, and the
\* chart is the chart of exactly those entries.
C1_WindowByCalendarDay ==
    /\ Len(filteredEntries) = Cardinality(CalendarIdx)
    /\ chartData = ChartData(Pick(entries, CalendarIdx, 1), WholeWindow, dateParse)

\* C2 (as claimed): the output pairs are in ascending order of the calendar
\* day they stand for: the labels of the output are the labels of the days
\* that have a retained entry, earliest day first.
C2_OutputAscendingByDay ==
    LET asc == Ascending(RetainedDays)
    IN  [i \in 1..Len(chartData) |-> chartData[i].date]
            = [i \in 1..Len(asc) |-> LabelOfDay(asc[i])]

\* C3: every calendar day with a retained entry is reported with the mean of
\* its retained entries' pain levels rounded to one decimal (the reported
\* value, in tenths, is within half a tenth of 10 * sum / count), and a day
\* with a single entry is reported with exactly that entry's level.
C3_DailyMeanRounded ==
    \A d \in RetainedDays :
        LET es == RetainedOfDay(d)
            hit == {i \in 1..Len(chartData) : chartData[i].date = LabelOfDay(d)}
        IN  /\ hit # {}
            /\ \A i \in hit :
                /\ 2 * Abs(chartData[i].painLevel * Len(es) - 10 * SumLevels(es))
                       <= Len(es)
                /\ Len(es) = 1 => chartData[i].painLevel = 10 * es[1].painLevel

\* C3 witness: a day whose three retained entries have a mean that needs
\* rounding (5.666... reported as 5.7, or 7.333... as 7.3).
C3_Witness ==
    \E d \in RetainedDays :
        /\ Len(RetainedOfDay(d)) = 3
        /\ (10 * SumLevels(RetainedOfDay(d))) % 3 # 0
        /\ \E i \in 1..Len(chartData) : chartData[i].date = LabelOfDay(d)

\* C4: entries are bucketed by calendar day whatever their time of day: the
\* output has exactly one pair per calendar day with a retained entry, it is
\* empty exactly when no entry is retained, and the entries (2024-01-01, 4),
\* (2024-01-01, 6), (2024-01-02, 8) with a window covering both days give
\* [("Jan 1", 5.0), ("Jan 2", 8.0)].
C4_OnePairPerDay ==
    /\ Len(chartData) = Cardinality(RetainedDays)
    /\ \A d \in RetainedDays :
           Cardinality({i \in 1..Len(chartData) : chartData[i].date = LabelOfDay(d)}) = 1
    /\ (chartData = <<>>) <=> (RetainedIdx = {})
    /\ ChartData(<<Entry(4, 1 * TicksPerDay), Entry(6, 1 * TicksPerDay + 1),
                   Entry(8, 2 * TicksPerDay)>>,
                 [from |-> 1 * TicksPerDay, to |-> 2 * TicksPerDay + 1], dateParse)
           = <<[date |-> [mon |-> "Jan", d |-> 1], painLevel |-> 50],
               [date |-> [mon |-> "Jan", d |-> 2], painLevel |-> 80]>>

\* C4 witness: two retained entries of one day at different times of day and
\* a retained entry of another day, shown as two pairs.
C4_Witness ==
    /\ Len(chartData) = 2
    /\ \E i, j, k \in RetainedIdx :
        /\ DayOf(entries[i].date) = DayOf(entries[j].date)
        /\ entries[i].date # entries[j].date
        /\ DayOf(entries[k].date) # DayOf(entries[i].date)

\* C5: a window with from > to gives the empty chart series and the empty
\* table list, whatever the entries.
C5_InvertedWindowEmpty ==
    dateRange.from > dateRange.to => (chartData = <<>> /\ filteredEntries = <<>>)

\* C5 witness: an inverted window over a non-empty entry list whose entries
\* lie between the two bounds, after a render.
C5_Witness ==
    /\ dateRange.from > dateRange.to
    /\ Len(entries) = MaxEntries
    /\ \E i \in 1..Len(entries) :
           entries[i].date <= dateRange.from /\ entries[i].date >= dateRange.to
    /\ chartData = <<>>

\* ------------------------------------------------ Attachments: properties
\* The guard as the specification states it: at most 5,242,880 bytes and a
\* content type of the allow-list.
PassesGuard(file) ==
    /\ file.size <= 5242880
    /\ file.type \in {"image/jpeg", "image/jpg", "image/png", "image/webp"}

\* The reason the guard gives for a file it rejects (the size is looked at
\* first).
RejectionTitle(file) ==
    IF file.size > 5242880 THEN "File too large" ELSE "Invalid file type"

ValidOf(files) == SelectSeq(files, PassesGuard)

Take(seq, n) == SubSeq(seq, 1, IF n < Len(seq) THEN n ELSE Len(seq))

TooMany == Toast("Too many files", NoFile)

\* C6: in the feedback, settings and registration forms, every upload a
\* submit attempts is of a file that passed the size check and the
\* allow-list check; a rejected profile picture is not uploaded later.
C6_OnlyAcceptedFilesUploaded ==
    /\ sub.pc = "upload" => PassesGuard(sub.files[sub.i])
    /\ psub.pc = "upload" => PassesGuard(psub.file)

\* What the state shows of the guard's last decision: only accepted files
\* are queued or previewed, and the toast of the last selection is the
\* guard's verdict on the file it offered.
C7_GuardDecisionState ==
    /\ \A k \in 1..Len(selectedFiles) :
           /\ PassesGuard(selectedFiles[k])
           /\ previewUrls[k] = CreateObjectURL(selectedFiles[k])
    /\ previewUrl # NoUrl => PassesGuard(previewUrl.blob)
    /\ (lastEvent.op = "handleFileChange" /\ Len(lastEvent.files) = 1) =>
           LET file == lastEvent.files[1]
           IN  IF PassesGuard(file)
               THEN \/ toasts = <<>> /\ selectedFiles[Len(selectedFiles)] = file
                    \/ toasts = <<TooMany>>
               ELSE toasts = <<Toast(RejectionTitle(file), file)>>
    /\ (lastEvent.op = "handleProfilePictureChange" /\ lastEvent.files # <<NoFile>>) =>
           LET file == lastEvent.files[1]
           IN  IF PassesGuard(file)
               THEN toasts = <<>> /\ previewUrl = CreateObjectURL(file)
               ELSE toasts = <<Toast(RejectionTitle(file), NoFile)>>

\* A selection the guard rejects changes neither queue nor preview.
C7_GuardDecisionStep ==
    /\ (lastEvent'.op = "handleFileChange" /\ Len(lastEvent'.files) = 1
          /\ ~PassesGuard(lastEvent'.files[1])) =>
           selectedFiles' = selectedFiles /\ previewUrls' = previewUrls
    /\ (lastEvent'.op = "handleProfilePictureChange"
          /\ ~PassesGuard(lastEvent'.files[1])) =>
           previewUrl' = previewUrl

\* C7: at each call site of the guard a file of allowed type and exactly
\* 5,242,880 bytes is accepted (no rejection toast; queued, or previewed), a
\* file of 5,242,881 bytes is rejected and so is a file whose type is not in
\* the allow-list, whatever its size (rejection toast; queue, previews and
\* preview left as they were).
C7_GuardBoundary == [](C7_GuardDecisionState) /\ [][C7_GuardDecisionStep]_vars

\* The registration form accepted and previewed a picture of exactly the
\* limit.
C7_Witness ==
    /\ form = "register"
    /\ lastEvent = [op |-> "handleProfilePictureChange",
                    files |-> <<File(5242880, "image/png")>>]
    /\ toasts = <<>>
    /\ previewUrl = CreateObjectURL(File(5242880, "image/png"))

\* A selection made while 3 files are queued.
C8_FourthOfferStep ==
    (Len(selectedFiles) = 3 /\ lastEvent'.op = "handleFileChange"
       /\ lastEvent'.files # <<>>) =>
        /\ selectedFiles' = selectedFiles
        /\ previewUrls' = previewUrls

\* C8: the feedback queue never holds more than 3 files, and a
\* handleFileChange that offers files while 3 are queued leaves the queue
\* (and its order) as it was.
C8_AttachmentCap ==
    /\ [](Len(selectedFiles) <= 3 /\ Len(previewUrls) = Len(selectedFiles))
    /\ [][C8_FourthOfferStep]_vars

\* Three files are queued and the last event offered one more valid file,
\* which was turned away.
C8_Witness ==
    /\ Len(selectedFiles) = 3
    /\ lastEvent.op = "handleFileChange"
    /\ Len(lastEvent.files) = 1
    /\ PassesGuard(lastEvent.files[1])
    /\ toasts = <<TooMany>>

\* A selection of several valid files that do not all fit.
C9_WholeBatchStep ==
    (/\ lastEvent'.op = "handleFileChange"
     /\ Len(ValidOf(lastEvent'.files)) >= 2
     /\ Len(selectedFiles) + Len(ValidOf(lastEvent'.files)) > 3) =>
        selectedFiles' = selectedFiles

\* C9 as stated: an event that offers several valid files, all of which
\* would bring the queue above 3, adds none of its files to the queue.
C9_WholeBatchRejected == [][C9_WholeBatchStep]_vars

\* The toasts of a selection, file by file, with room for `room` more.
C9_ExpectedToasts(files, room) ==
    LET RECURSIVE Walk(_, _)
        Walk(rest, left) ==
            IF rest = <<>> THEN <<>>
            ELSE IF ~PassesGuard(Head(rest))
            THEN <<Toast(RejectionTitle(Head(rest)), Head(rest))>> \o Walk(Tail(rest), left)
            ELSE IF left = 0 THEN <<TooMany>> \o Walk(Tail(rest), left)
            ELSE Walk(Tail(rest), left - 1)
    IN  Walk(files, room)

C9_AcceptedUpToCapStep ==
    lastEvent'.op = "handleFileChange" =>
        LET room == 3 - Len(selectedFiles)
        IN  /\ selectedFiles' = selectedFiles \o Take(ValidOf(lastEvent'.files), room)
            /\ toasts' = C9_ExpectedToasts(lastEvent'.files, room)

\* C9 as the code has it: of the files an event offers, the valid ones are
\* added in offered order until 3 are queued; each valid file beyond that is
\* turned away with "Too many files", each invalid one with the guard's
\* reason, in offered order; the files queued before stay.
C9_AcceptedUpToCap == [][C9_AcceptedUpToCapStep]_vars

\* The last event offered two valid files with room for one: the first
\* was queued, the second turned away.
C9_Witness ==
    /\ lastEvent.op = "handleFileChange"
    /\ Len(lastEvent.files) = 2
    /\ ValidOf(lastEvent.files) = lastEvent.files
    /\ Len(selectedFiles) = 3
    /\ selectedFiles[3] = lastEvent.files[1]
    /\ toasts = <<TooMany>>

\* The retrieval URLs of the uploads of the run that succeeded, in queue
\* order.
SucceededUrls(s) ==
    LET RECURSIVE From(_)
        From(k) ==
            IF k > Len(s.files) THEN <<>>
            ELSE (IF k \in s.failed THEN <<>> ELSE <<DownloadURL(k, s.files[k])>>)
                     \o From(k + 1)
    IN  From(1)

\* C10: a feedback submission goes through every queued file whatever
\* uploads fail and then writes the record; where the write succeeds the
\* record's attachment list is exactly the retrieval URLs of the uploads that
\* succeeded, in queue order (empty when all failed); each failed upload
\* raises its own "Upload Failed" notification naming the file.
C10_PartialSuccess ==
    /\ sub.pc \in {"idle", "upload", "addDoc", "done"}
    /\ sub.pc = "upload" => sub.i \in 1..Len(sub.files)
    /\ sub.pc \in {"addDoc", "done"} =>
           /\ sub.i = Len(sub.files) + 1
           /\ sub.urls = SucceededUrls(sub)
    /\ sub.pc = "done" <=> sub.addDoc \in {"fulfilled", "rejected"}
    /\ sub.addDoc = "fulfilled" => sub.written = <<[attachments |-> SucceededUrls(sub)]>>
    /\ sub.addDoc # "fulfilled" => sub.written = <<>>
    /\ lastEvent.op = "uploadSettles" =>
           IF sub.i - 1 \in sub.failed
           THEN toasts = <<Toast("Upload Failed", sub.files[sub.i - 1])>>
           ELSE toasts = <<>>

\* A submission of three files whose second upload failed wrote a record
\* with the URLs of the first and the third.
C10_Witness ==
    /\ sub.pc = "done"
    /\ sub.addDoc = "fulfilled"
    /\ Len(sub.files) = 3
    /\ sub.failed = {2}
    /\ sub.written = <<[attachments |-> <<DownloadURL(1, sub.files[1]),
                                          DownloadURL(3, sub.files[3])>>]>>

\* ------------------------------------------- Feedback submission: ordering
\* The indices of the files of the run whose upload was fulfilled.
UploadedIdx(s) == {s.urls[k].object : k \in 1..Len(s.urls)}

\* The files of the run whose upload attempt has settled.
AttemptedIdx(s) == UploadedIdx(s) \cup s.failed

\* While the run is at the upload of file i, exactly the files before i have
\* had their attempt, each once; at the write, and after it, all have.
C11_AttemptsState ==
    /\ sub.pc = "upload" =>
           /\ sub.i \in 1..Len(sub.files)
           /\ AttemptedIdx(sub) = 1..(sub.i - 1)
    /\ sub.pc \in {"addDoc", "done"} => AttemptedIdx(sub) = 1..Len(sub.files)
    /\ Cardinality(UploadedIdx(sub)) = Len(sub.urls)
    /\ UploadedIdx(sub) \cap sub.failed = {}

\* A step of a run at the upload of file i settles that attempt and no
\* other, and goes on to file i + 1 or, after the last file, to the write; a
\* run starts at file 1 (or at the write when nothing is queued).
C11_AttemptsStep ==
    /\ sub.pc = "upload" /\ sub' # sub =>
           /\ sub'.files = sub.files
           /\ AttemptedIdx(sub') = AttemptedIdx(sub) \cup {sub.i}
           /\ sub'.i = sub.i + 1
           /\ sub'.pc = IF sub.i < Len(sub.files) THEN "upload" ELSE "addDoc"
    /\ sub.pc \in {"idle", "done"} /\ sub'.pc \notin {"idle", "done"} =>
           /\ sub'.i = 1
           /\ sub'.urls = <<>> /\ sub'.failed = {}
           /\ sub'.pc = IF Len(sub'.files) > 0 THEN "upload" ELSE "addDoc"
    /\ sub.pc = "addDoc" /\ sub' # sub => sub'.pc = "done"

\* C11: within one feedback submission the uploads are attempted one at a
\* time in queue order, each queued file has exactly one attempt, and the
\* record write starts only after the last attempt has finished.
C11_UploadsInQueueOrder == [](C11_AttemptsState) /\ [][C11_AttemptsStep]_vars

\* A run of three files is at its write: the first upload failed, the other
\* two succeeded.
C11_Witness ==
    /\ sub.pc = "addDoc"
    /\ Len(sub.files) = 3
    /\ sub.failed = {1}
    /\ UploadedIdx(sub) = {2, 3}

\* ------------------------------------------------- Dashboard: properties
\* The ids addDoc has created that the collection no longer holds.
DeletedIds == (1..(nextId - 1)) \ Ids(store)

\* An entry the collection no longer holds is visible only while a fetch is
\* in flight or the query is in its error state.
C12_StaleOnlyUntilRefetch ==
    /\ (IdsOf(entries) \cap DeletedIds # {}) => (query.status = "fetching" \/ query.error)
    /\ lastEvent.op = "fetched" =>
           /\ IdsOf(entries) \cap DeletedIds = {}
           /\ IdsOf(filteredEntries) \cap DeletedIds = {}

\* A successful delete removes the document from the collection, starts a
\* fetch whose answer is still to come, and leaves the list as it was.
C12_DeleteStep ==
    lastEvent'.op = "deleted" =>
        /\ Cardinality(store') = Cardinality(store) - 1 \/ store' = store
        /\ store' \subseteq store
        /\ entries' = entries /\ filteredEntries' = filteredEntries
        /\ chartData' = chartData
        /\ query'.status = "fetching" /\ ~query'.answered

\* C12: a successful delete always triggers a refetch of the whole list and
\* removes nothing locally; the deleted entry may stay visible until that
\* refetch completes, and is gone once it has completed successfully.
C12_DeleteThenRefetch == [](C12_StaleOnlyUntilRefetch) /\ [][C12_DeleteStep]_vars

\* The refetch after a delete has completed: an entry that had been on the
\* list is deleted and no longer listed, another still is.
C12_Witness ==
    /\ lastEvent.op = "fetched"
    /\ DeletedIds # {}
    /\ entries # <<>>
    /\ IdsOf(entries) = Ids(store)

\* ------------------------------------------------ Failures: properties
\* The step is the catch of a failed write or delete: of the entry write,
\* the entry delete, the feedback record write, or a profile write
\* (updateProfile, the users document of a save, of a registration or of the
\* lazy creation).
C13_WriteFailed ==
    \/ lastEvent'.op \in {"addFailed", "deleteFailed", "updateProfileFailed",
                          "setDocFailed", "lazySetDocFailed"}
    \/ lastEvent'.op = "addDocSettles" /\ sub'.addDoc = "rejected"

C13_FailureStep ==
    C13_WriteFailed =>
        /\ Len(toasts') = 1
        /\ toasts'[1].title \in {"Error", "Registration Failed"}
        /\ store' = store /\ userDoc' = userDoc /\ sub'.written = <<>>
        /\ query' = query /\ entries' = entries /\ filteredEntries' = filteredEntries
        /\ showNewEntryDialog' = showNewEntryDialog
        /\ selectedFiles' = selectedFiles /\ previewUrls' = previewUrls
        /\ lastEvent'.op = "addFailed" => entryForm' = IdleEntryForm
        /\ lastEvent'.op = "deleteFailed" =>
               deleting' \subseteq deleting /\ Cardinality(deleting') = Cardinality(deleting) - 1
        /\ lastEvent'.op = "addDocSettles" => sub'.pc = "done" /\ ~isSubmitting'
        /\ lastEvent'.op \in {"updateProfileFailed", "setDocFailed"} =>
               psub' = IdleProfileRun /\ ~loading'
        /\ lastEvent'.op = "lazySetDocFailed" => load' = IdleLoad

\* C13: a failed entry write, entry delete, feedback record write or
\* profile write is caught and raises exactly one error notification; the
\* run is over (nothing is issued again until the user acts) and no success
\* effect happens: nothing stored, no success toast, no refetch, the dialog
\* stays open, the attachment queue stays as it was.
C13_FailureCaughtOnce == [][C13_FailureStep]_vars

\* The feedback record write failed with two files queued: one error toast,
\* the queue kept.
C13_Witness ==
    /\ lastEvent.op = "addDocSettles"
    /\ sub.addDoc = "rejected"
    /\ toasts = <<Toast("Error", NoFile)>>
    /\ Len(selectedFiles) = 2
    /\ ~isSubmitting

\* C14: whenever a sign-in, registration or password-reset flow ends in its
\* error path (its catch entered, the error toast raised), the signed-in user is the one
\* from before the flow, which on the auth form is none; a registration
\* reported as failed leaves no session.
C14_ErrorLeavesSessionUnchanged ==
    (/\ form \in {"login", "register", "reset"}
     /\ lastEvent.op \in {"signInFailed", "resetFailed", "createUserFailed",
                          "pictureUploadFailed", "updateProfileFailed", "setDocFailed"}
     /\ toasts # <<>>) =>
        currentUser = NoUser

\* ---------------------------------------------- Validation: properties
\* The rules of the forms' fields as the specification lists them.
C16_Rule(f, data) ==
    CASE f = "login" -> IsEmail(data.email) /\ data.password >= 6
      [] f = "register" ->
             IsEmail(data.email) /\ data.password >= 6 /\ data.displayName >= 2
      [] f = "reset" -> IsEmail(data.email)
      [] f = "dashboard" -> data.painLevel \in 0..10 /\ data.date # NoDate
      [] f = "feedback" -> data.feedback >= 10
      [] f = "settings" -> data.displayName \in 2..50

C16_SubmitOps == {"onSubmit", "onRegister", "authOnSubmit", "onReset", "entryOnSubmit"}

\* The handler of a form runs with data that satisfies the form's rules.
C16_HandlerData == lastEvent.op \in C16_SubmitOps => C16_Rule(form, lastEvent.data)

\* A run (and with it every backend call) starts in the step of its form's
\* handler only, and a submit that fails validation starts nothing.
C16_CallsStep ==
    /\ (sub.pc \in {"idle", "done"} /\ sub'.pc \notin {"idle", "done"}) =>
           lastEvent'.op = "onSubmit"
    /\ (psub.pc = "idle" /\ psub'.pc # "idle") => lastEvent'.op \in {"onSubmit", "onRegister"}
    /\ (entryForm.pc = "idle" /\ entryForm'.pc # "idle") => lastEvent'.op = "entryOnSubmit"
    /\ authRun'.signIns > authRun.signIns => lastEvent'.op = "authOnSubmit"
    /\ (authRun'.sendReset /\ ~authRun.sendReset) => lastEvent'.op = "onReset"
    /\ lastEvent'.op = "invalid" =>
           /\ ~C16_Rule(form, lastEvent'.data)
           /\ UNCHANGED <<sub, psub, entryForm, authRun, load, store, userDoc,
                          currentUser, authProfile, isSubmitting, loading, isResetting>>

\* C16: in every form a submit makes a backend call only if every declared
\* field satisfies its rule at that moment (e-mail format, password length,
\* pain level in 0..10 and a date, feedback of at least 10 characters,
\* display name within the form's length bounds).
C16_ValidationGatesSubmission == [](C16_HandlerData) /\ [][C16_CallsStep]_vars

\* The feedback form was submitted with 9 characters: nothing started.
C16_Witness ==
    /\ form = "feedback"
    /\ lastEvent.op = "invalid"
    /\ lastEvent.data.feedback = 9
    /\ sub.pc \in {"idle", "done"}
    /\ ~isSubmitting

\* -------------------------------------------- In-progress flags: properties
\* A flag is set exactly while its flow's run is in flight: a handler that
\* returns early (no signed-in user) leaves none set.
C15_FlagOnlyWhileRunning ==
    /\ entryForm.isSubmitting <=> entryForm.pc # "idle"
    /\ isSubmitting <=> sub.pc \notin {"idle", "done"}
    /\ loading <=> psub.pc # "idle"
    /\ isResetting <=> authRun.sendReset

\* C15: for each submit flow (new entry, feedback, settings, registration,
\* password reset), with every backend call eventually succeeding or
\* failing, the in-progress flag that disables the submit button eventually
\* is false again: on success, on any failure, and on the early return
\* without a signed-in user.
C15_FlagsReturnToFalse ==
    /\ [](C15_FlagOnlyWhileRunning)
    /\ (entryForm.isSubmitting ~> ~entryForm.isSubmitting)
    /\ (isSubmitting ~> ~isSubmitting)
    /\ (loading ~> ~loading)
    /\ (isResetting ~> ~isResetting)

\* The write of a new entry was rejected: the dialog is still open and the
\* submit button is enabled again.
C15_Witness ==
    /\ form = "dashboard"
    /\ lastEvent.op = "addFailed"
    /\ showNewEntryDialog
    /\ ~entryForm.isSubmitting

\* ------------------------------------------------ UserProfile: properties
\* C17: every users/{uid} document the application writes (at registration,
\* at lazy creation on the first settings visit, on a settings save) has a
\* display name of 2 to 50 characters.
C17_DisplayNameBounds ==
    userDoc # NoDoc => (userDoc.displayName >= 2 /\ userDoc.displayName <= 50)

\* C20: a profile document written by registration or by a settings save
\* is never replaced by the default document of the lazy creation, however
\* the settings load (read, then create if absent) interleaves with them.
C20_LazyNeverOverwrites ==
    [][userDoc.origin \in {"register", "save"} => userDoc'.origin # "lazy"]_vars

\* ------------------------------------------------ Store rules: properties
\* Every pain entry's owning-user field is the identity of its creator.
C18_OwnerIsCreator == \A d \in store : d.userId = creator[d.id]

\* A permitted read, update or delete of an entry comes from an
\* authenticated requester who is the entry's owning user.
C18_PermittedStep ==
    (/\ request'.collection = "painEntries"
     /\ request'.method \in {"read", "update", "delete"}
     /\ request'.allowed) =>
        /\ request'.auth # NoUser
        /\ request'.auth = Resource(store, request'.id).userId

\* C18: after any sequence of create, update and delete requests that the
\* rules permit, every pain entry's owning-user field equals the identity
\* of the user who created it, and every permitted read, update or delete
\* was issued by the authenticated user the entry's owning-user field names.
C18_EntryOwnership == [](C18_OwnerIsCreator) /\ [][C18_PermittedStep]_vars

\* A feedback document appears only by a create of the authenticated user
\* its owning-user field names; a document that exists stays as it is; no
\* read, update or delete of the collection is permitted.
C19_FeedbackStep ==
    /\ \A d \in feedbackDocs' \ feedbackDocs :
           /\ d.id \notin Ids(feedbackDocs)
           /\ request'.collection = "feedback"
           /\ request'.method = "create"
           /\ request'.auth # NoUser
           /\ request'.auth = d.userId
    /\ feedbackDocs \subseteq feedbackDocs'
    /\ (request'.collection = "feedback" /\ request'.method \in {"read", "update", "delete"}) =>
           ~request'.allowed

\* C19: under the rules a feedback document can be created only by an
\* authenticated requester whose identity equals its owning-user field; no
\* client request reads one, and none updates or deletes one: a feedback
\* record is immutable after creation.
C19_FeedbackCreateOnly == [][C19_FeedbackStep]_vars

\* The owner of a feedback document asked to rewrite it and was refused.
C19_Witness ==
    /\ request.collection = "feedback"
    /\ request.method = "update"
    /\ ~request.allowed
    /\ \E d \in feedbackDocs : d.id = request.id /\ d.userId = request.auth

\* ---------------------------------------------- Storage rules: properties
\* C21: every file the client guard accepts, uploaded by its authenticated
\* owner to the owner's profile-pictures or feedback-attachments path, is
\* permitted by the storage rule; and every upload the rule permits is
\* within the 5 MB cap and has an image content type.
C21_RuleAgreesWithGuard ==
    (request.collection \in StoragePrefixes /\ request.method = "create") =>
        /\ (/\ ValidateFile(request.file) = "accepted"
            /\ request.auth # NoUser
            /\ request.auth = request.userId) => request.allowed
        /\ request.allowed =>
               /\ request.file.size <= 5242880
               /\ MatchesImage(request.file.type)

\* ------------------------------------------------ New entries: properties
\* C22: with the dashboard's default window unchanged, once a new entry with
\* the form's default date has been written and a fetch started after the
\* write has completed, the entry is in the visible table and its day has a
\* point in the chart.
C22_NewEntryVisible ==
    (form = "dashboard" /\ lastEvent.op = "fetched" /\ dateRange = defaultDateRange) =>
        \A d \in store :
            d.date = DefaultEntryDate =>
                /\ d.id \in IdsOf(filteredEntries)
                /\ \E i \in 1..Len(chartData) :
                       chartData[i].date = LabelOfDay(DayOf(d.date))

\* --------------------------------------------- Feedback queue: properties
\* How many times the file is in the list.
Occurrences(files, file) == Cardinality({k \in 1..Len(files) : files[k] = file})

\* The step that ends a successful submission: of every file, no more
\* copies leave the queue than the submission attempted to upload.
C24_ClearStep ==
    (sub.pc = "addDoc" /\ sub'.pc = "done" /\ sub'.addDoc = "fulfilled") =>
        \A k \in 1..Len(selectedFiles) :
            Occurrences(selectedFiles, selectedFiles[k])
                <= Occurrences(selectedFiles', selectedFiles[k])
                   + Occurrences(sub.files, selectedFiles[k])

\* C24: a file accepted into the feedback queue while a submission is in
\* flight is either uploaded as part of that submission or still queued
\* after it completes; the clearing at the end of a successful submission
\* removes only files whose upload was attempted.
C24_NoQueuedFileLost == [][C24_ClearStep]_vars

\* ------------------------------------------- Single submission: properties
\* A handler run starts only with no run of its form in flight, and a run
\* writes at most one document.
C25_SubmitStep ==
    /\ (form = "feedback" /\ lastEvent'.op = "onSubmit") =>
           sub.pc \in {"idle", "done"} /\ ~isSubmitting
    /\ lastEvent'.op = "entryOnSubmit" =>
           entryForm.pc = "idle" /\ ~entryForm.isSubmitting
    /\ store' # store /\ lastEvent'.op = "added" =>
           /\ entryForm.pc = "addDoc"
           /\ entryForm'.pc # "addDoc"
           /\ Cardinality(store') = Cardinality(store) + 1
    /\ (sub'.written # sub.written /\ sub'.written # <<>>) =>
           sub.pc = "addDoc" /\ sub'.pc = "done" /\ Len(sub'.written) = 1

C26_QueueAndPreviewsParallel ==
    /\ Len(selectedFiles) = Len(previewUrls)
    /\ \A i \in 1..Len(selectedFiles) : previewUrls[i].blob = selectedFiles[i]

\* The first of three queued files was removed: two files and their two
\* previews are left.
C26_Witness ==
    /\ lastEvent.op = "removeFile"
    /\ Len(selectedFiles) = 2
    /\ Len(previewUrls) = 2
    /\ selectedFiles[1] # selectedFiles[2]

\* ---------------------------------------------------- Session: properties
\* C23: in every reachable state, across sign-in, sign-out, sign-in as
\* another user, fetch and refetch, every entry shown in the table or fed
\* to the chart has an owning-user field equal to the authenticated user.
C23_VisibleEntriesOfCurrentUser ==
    /\ \A i \in 1..Len(filteredEntries) : filteredEntries[i].userId = currentUser
    /\ \A i \in 1..Len(entries) : entries[i].userId = currentUser

====
